---- MODULE Spec2Model ----
(***************************************************************************)
(* Model of the chess analysis front end: the Stockfish coordinator        *)
(* (src/engine.js), the worker proxy (stockfishWorker.js) and the engine   *)
(* process behind it, connected by FIFO message channels.                  *)
(*                                                                         *)
(* Text is modelled at character level where the code inspects it: a line  *)
(* of engine output is a sequence of space separated tokens and a token is *)
(* a sequence of one-character strings, so that the regular expressions of *)
(* parseEngineOutput are evaluated the way the code evaluates them.        *)
(***************************************************************************)
EXTENDS Integers, Sequences, FiniteSets, TLC

(***************************************************************************)
(* Bounds of the model.                                                    *)
(***************************************************************************)
\* number of environment events (analyze() and stop() calls, progress lines
\* of the engine, faults) a behaviour of SessionSpec may contain
MaxEvents == 4
\* the same number for a behaviour of Spec, which starts at construction
StartEvents == 2
\* the same number for a behaviour of ReducerSpec, where every message the
\* worker posts is an event
ReducerEvents == 5
\* the same number for a behaviour of HistorySpec, where an event is a call
\* of analyze() or stop() made by a handler of the board
BoardEvents == 3
\* number of lines of a pasted text or a file
MaxLines == 2
\* number of times the clock advances in a behaviour of FavoritesSpec
MaxNow == 2
\* number of setTimeout callbacks of likeCurrentPosition() pending at once
MaxTimers == 1
\* number of calls of analyze() and stop() in a behaviour of LikeSpec
LikeEvents == 2
\* number of calls of analyze() and stop() and of messages of the worker
\* in a behaviour of DesktopSpec
DesktopEvents == 4

(***************************************************************************)
(* Characters and tokens.                                                  *)
(***************************************************************************)
Digits == {"0", "1", "2", "3", "4", "5", "6", "7", "8", "9"}

DigitVal(c) ==
    CASE c = "0" -> 0 [] c = "1" -> 1 [] c = "2" -> 2 [] c = "3" -> 3
      [] c = "4" -> 4 [] c = "5" -> 5 [] c = "6" -> 6 [] c = "7" -> 7
      [] c = "8" -> 8 [] c = "9" -> 9

\* the words the code and the engine use
W == [info |-> <<"i", "n", "f", "o">>,
      depth |-> <<"d", "e", "p", "t", "h">>,
      seldepth |-> <<"s", "e", "l", "d", "e", "p", "t", "h">>,
      multipv |-> <<"m", "u", "l", "t", "i", "p", "v">>,
      score |-> <<"s", "c", "o", "r", "e">>,
      cp |-> <<"c", "p">>,
      mate |-> <<"m", "a", "t", "e">>,
      pv |-> <<"p", "v">>,
      bestmove |-> <<"b", "e", "s", "t", "m", "o", "v", "e">>,
      ponder |-> <<"p", "o", "n", "d", "e", "r">>,
      currmove |-> <<"c", "u", "r", "r", "m", "o", "v", "e">>,
      uciok |-> <<"u", "c", "i", "o", "k">>,
      readyok |-> <<"r", "e", "a", "d", "y", "o", "k">>]

\* move tokens
Mv == [e2e4 |-> <<"e", "2", "e", "4">>,
       e7e5 |-> <<"e", "7", "e", "5">>,
       d2d4 |-> <<"d", "2", "d", "4">>,
       e7e8q |-> <<"e", "7", "e", "8", "q">>]

\* s.startsWith(p), on character sequences
HasPrefix(s, p) ==
    /\ Len(s) >= Len(p)
    /\ \A i \in 1..Len(p) : s[i] = p[i]

\* s.endsWith(p)
HasSuffix(s, p) ==
    /\ Len(s) >= Len(p)
    /\ \A i \in 1..Len(p) : s[Len(s) - Len(p) + i] = p[i]

\* s.includes(p)
Includes(s, p) ==
    \E k \in 0..(Len(s) - Len(p)) : \A i \in 1..Len(p) : s[k + i] = p[i]

\* length of the longest prefix of s made of digits: what (\d+) captures
DigitRun(s) ==
    IF \A i \in 1..Len(s) : s[i] \in Digits
    THEN Len(s)
    ELSE (CHOOSE i \in 1..Len(s) :
              /\ s[i] \notin Digits
              /\ \A j \in 1..(i - 1) : s[j] \in Digits) - 1

\* the token starts with \d+
StartsNat(s) == DigitRun(s) > 0

\* the token starts with -?\d+
StartsInt(s) ==
    IF Len(s) > 0 /\ s[1] = "-" THEN StartsNat(Tail(s)) ELSE StartsNat(s)

RECURSIVE NatOf(_, _)
\* value of the first n characters of s, all digits
NatOf(s, n) == IF n = 0 THEN 0 ELSE 10 * NatOf(s, n - 1) + DigitVal(s[n])

\* parseInt of the text captured by (\d+) at the start of token s
ParseNat(s) == NatOf(s, DigitRun(s))

\* parseInt of the text captured by (-?\d+) at the start of token s
ParseInt(s) ==
    IF Len(s) > 0 /\ s[1] = "-" THEN 0 - ParseNat(Tail(s)) ELSE ParseNat(s)

\* /^[a-h][1-8][a-h][1-8][qrbn]?$/.test(t)
IsUciMove(t) ==
    /\ Len(t) \in {4, 5}
    /\ t[1] \in {"a", "b", "c", "d", "e", "f", "g", "h"}
    /\ t[2] \in {"1", "2", "3", "4", "5", "6", "7", "8"}
    /\ t[3] \in {"a", "b", "c", "d", "e", "f", "g", "h"}
    /\ t[4] \in {"1", "2", "3", "4", "5", "6", "7", "8"}
    /\ Len(t) = 5 => t[5] \in {"q", "r", "b", "n"}

\* nullable numbers: null is the empty tuple, the number n is <<n>>
Null == <<>>
Some(n) == <<n>>

(***************************************************************************)
(* Lines of engine output: sequences of tokens.                            *)
(***************************************************************************)
L == [uciok |-> <<W.uciok>>,
      readyok |-> <<W.readyok>>,
      \* info depth 5 seldepth 7 multipv 1 score cp 30 pv e2e4 e7e5
      rank1 |-> <<W.info, W.depth, <<"5">>, W.seldepth, <<"7">>, W.multipv,
                  <<"1">>, W.score, W.cp, <<"3", "0">>, W.pv, Mv.e2e4, Mv.e7e5>>,
      \* info depth 7 multipv 1 score mate -2 pv d2d4
      rank1mate |-> <<W.info, W.depth, <<"7">>, W.multipv, <<"1">>, W.score,
                      W.mate, <<"-", "2">>, W.pv, Mv.d2d4>>,
      \* info depth 4 multipv 2 score cp -12 pv d2d4
      rank2 |-> <<W.info, W.depth, <<"4">>, W.multipv, <<"2">>, W.score, W.cp,
                  <<"-", "1", "2">>, W.pv, Mv.d2d4>>,
      \* info depth 6 multipv 3 score mate 3 pv e7e8q
      rank3 |-> <<W.info, W.depth, <<"6">>, W.multipv, <<"3">>, W.score,
                  W.mate, <<"3">>, W.pv, Mv.e7e8q>>,
      \* info depth 0 score mate 0    (a position without legal moves: no pv)
      nopv |-> <<W.info, W.depth, <<"0">>, W.score, W.mate, <<"0">>>>,
      \* info depth 5 multipv 2 currmove e2e4    (no pv)
      currmove |-> <<W.info, W.depth, <<"5">>, W.multipv, <<"2">>, W.currmove,
                     Mv.e2e4>>,
      \* bestmove e2e4 ponder e7e5
      bestmove |-> <<W.bestmove, Mv.e2e4, W.ponder, Mv.e7e5>>,
      \* Stockfish worker error: ...
      fault |-> <<<<"S", "t", "o", "c", "k", "f", "i", "s", "h">>,
                  <<"w", "o", "r", "k", "e", "r">>,
                  <<"e", "r", "r", "o", "r", ":">>>>,
      \* Failed to initialize Stockfish: ...
      failed |-> <<<<"F", "a", "i", "l", "e", "d">>>>]

\* the progress lines the engine may print during a search
ProgressLines == {L.rank1, L.rank2, L.nopv}

(***************************************************************************)
(* parseEngineOutput: the regular expressions, evaluated on tokens.        *)
(***************************************************************************)
MinOf(S) == CHOOSE x \in S : \A y \in S : x <= y

\* positions i at which /depth (\d+)/ matches (token i ends with "depth")
DepthMatches(line) ==
    {i \in 1..(Len(line) - 1) :
        HasSuffix(line[i], W.depth) /\ StartsNat(line[i + 1])}

\* positions at which /multipv (\d+)/ matches
MultiPvMatches(line) ==
    {i \in 1..(Len(line) - 1) :
        HasSuffix(line[i], W.multipv) /\ StartsNat(line[i + 1])}

\* positions at which /score (cp|mate) (-?\d+)/ matches
ScoreMatches(line) ==
    {i \in 1..(Len(line) - 2) :
        /\ HasSuffix(line[i], W.score)
        /\ line[i + 1] \in {W.cp, W.mate}
        /\ StartsInt(line[i + 2])}

\* positions at which /pv (.+)/ matches: "multipv 1" matches as well
PvMatches(line) ==
    {i \in 1..(Len(line) - 1) : HasSuffix(line[i], W.pv)}

\* select the elements of a sequence that satisfy IsUciMove, in order
RECURSIVE FilterUci(_)
FilterUci(tokens) ==
    IF tokens = <<>> THEN <<>>
    ELSE IF IsUciMove(Head(tokens))
         THEN <<Head(tokens)>> \o FilterUci(Tail(tokens))
         ELSE FilterUci(Tail(tokens))

\* line.startsWith('info') && line.includes('depth')
IsInfoLine(line) ==
    /\ Len(line) > 0
    /\ HasPrefix(line[1], W.info)
    /\ \E i \in 1..Len(line) : Includes(line[i], W.depth)

\* line.startsWith('bestmove')
IsBestmoveLine(line) == Len(line) > 0 /\ HasPrefix(line[1], W.bestmove)

\* pvMatch[1].trim().split(/\s+/).filter(...)
UciTokens(line) ==
    FilterUci(SubSeq(line, MinOf(PvMatches(line)) + 1, Len(line)))

\* the line passes every test before "Parse score": it updates the aggregate
IsProgressUpdate(line) ==
    /\ IsInfoLine(line)
    /\ DepthMatches(line) # {}
    /\ PvMatches(line) # {}
    /\ UciTokens(line) # <<>>

LineDepth(line) == ParseNat(line[MinOf(DepthMatches(line)) + 1])

LineMultiPv(line) ==
    IF MultiPvMatches(line) # {}
    THEN ParseNat(line[MinOf(MultiPvMatches(line)) + 1])
    ELSE 1

LineScore(line) ==
    IF ScoreMatches(line) # {} /\ line[MinOf(ScoreMatches(line)) + 1] = W.cp
    THEN Some(ParseInt(line[MinOf(ScoreMatches(line)) + 2]))
    ELSE Null

LineMate(line) ==
    IF ScoreMatches(line) # {} /\ line[MinOf(ScoreMatches(line)) + 1] = W.mate
    THEN Some(ParseInt(line[MinOf(ScoreMatches(line)) + 2]))
    ELSE Null

\* an array element that was never assigned (undefined)
Hole == [move |-> <<>>, score |-> Null, mate |-> Null, line |-> <<>>]

\* k holes
Holes(k) == [i \in 1..k |-> Hole]

\* moves.push(v) in place of moves[idx] = v
SetSlotPushes(moves, idx, v) == Append(moves, v)

\* moves[idx] = v on a JavaScript array, idx counted from 0
SetSlot(moves, idx, v) ==
    IF idx < 0 THEN moves
    ELSE IF idx < Len(moves) THEN [moves EXCEPT ![idx + 1] = v]
    ELSE moves \o Holes(idx - Len(moves)) \o <<v>>

\* moves.filter(m => m !== undefined)
RECURSIVE FilterDefined(_)
FilterDefined(moves) ==
    IF moves = <<>> THEN <<>>
    ELSE IF Head(moves) = Hole THEN FilterDefined(Tail(moves))
         ELSE <<Head(moves)>> \o FilterDefined(Tail(moves))

\* the aggregate as the constructor and analyze() set it
EmptyAnalysis == [score |-> Null, mate |-> Null, depth |-> 0, moves |-> <<>>]

\* the slot a progress line writes
SlotOf(line) ==
    [move |-> UciTokens(line)[1], score |-> LineScore(line),
     mate |-> LineMate(line), line |-> UciTokens(line)]

\* the "info" part without the test multiPv === 1
UpdateAnalysisAnyRank(agg, line) ==
    IF ~IsProgressUpdate(line) THEN agg
    ELSE [score |-> LineScore(line),
          mate |-> LineMate(line),
          depth |-> LineDepth(line),
          moves |-> SetSlot(agg.moves, LineMultiPv(line) - 1, SlotOf(line))]

\* the "info" part that assigns score and mate only when the line has them
UpdateAnalysisKeepsEval(agg, line) ==
    IF ~IsProgressUpdate(line) THEN agg
    ELSE [score |-> IF LineMultiPv(line) = 1 /\ LineScore(line) # Null
                    THEN LineScore(line) ELSE agg.score,
          mate |-> IF LineMultiPv(line) = 1 /\ LineMate(line) # Null
                   THEN LineMate(line) ELSE agg.mate,
          depth |-> IF LineMultiPv(line) = 1 THEN LineDepth(line) ELSE agg.depth,
          moves |-> SetSlot(agg.moves, LineMultiPv(line) - 1, SlotOf(line))]

\* the aggregate after the "info" part of parseEngineOutput
UpdateAnalysis(agg, line) ==
    IF ~IsProgressUpdate(line) THEN agg
    ELSE [score |-> IF LineMultiPv(line) = 1 THEN LineScore(line) ELSE agg.score,
          mate |-> IF LineMultiPv(line) = 1 THEN LineMate(line) ELSE agg.mate,
          depth |-> IF LineMultiPv(line) = 1 THEN LineDepth(line) ELSE agg.depth,
          moves |-> SetSlot(agg.moves, LineMultiPv(line) - 1, SlotOf(line))]

\* the "bestmove" part of parseEngineOutput calls the callback
BestmoveFires(cb, agg, line) ==
    /\ IsBestmoveLine(line)
    /\ cb # 0
    /\ Len(agg.moves) > 0

(***************************************************************************)
(* State.                                                                  *)
(***************************************************************************)
VARIABLES
    \* StockfishEngine (engine.js), on the main thread
    worker,            \* this.worker: "null" or "proxy"
    isAnalyzing,       \* this.isAnalyzing
    analysisCallback,  \* this.analysisCallback: 0 is null, k the callback of call k
    currentAnalysis,   \* this.currentAnalysis
    initPromise,       \* the promise of init(): "none", "pending", "resolved", "rejected"
    checkReady,        \* the checkReady listener is registered
    resolveTimer,      \* the setTimeout of checkReady is armed
    \* the worker proxy
    engineWorker,      \* engineWorker: "null" or "engine"
    messageQueue,      \* messageQueue
    isReady,           \* isReady
    \* the engine process
    engSearch,         \* the call whose search is running, 0 when idle
    printed,           \* number of lines the engine has printed unasked
    engHung,           \* the engine did not answer the handshake and is dead
    \* message channels, FIFO
    toProxy,           \* main thread -> proxy
    toEngine,          \* proxy -> engine
    fromEngine,        \* engine -> proxy
    toMain,            \* proxy -> main thread
    \* history, for stating properties
    calls,             \* number of analyze() calls made
    stops,             \* number of stop() calls made
    faults,            \* number of faults raised
    invoked,           \* the callback invocations, in order
    slotGen,           \* per slot of the aggregate: the search whose line wrote it
    ackSeen,           \* the main thread has received the line uciok
    proxyLog,          \* the commands the proxy received, in order
    engineLog,         \* the commands the engine received, in order
    lastCall,          \* the last call among analyze() and stop(): "none" at first
    lastMsg,           \* the last message handled since that call, if any
    doneGens,          \* the searches whose bestmove line the main thread received
    quick,             \* the calls of analyze() that directly followed an
                       \* analyze() whose bestmove line had not been received
    flushed,           \* the commands the proxy flushed when it saw uciok
    \* BoardAnalyzer (main.js)
    chess,             \* chess: the position of the rules engine
    initialFen,        \* initialFen
    loadedFileName,    \* loadedFileName, "null" when null
    fenList,           \* fenList
    currentFenIndex,   \* currentFenIndex
    moveHistory,       \* moveHistory
    currentMoveIndex,  \* currentMoveIndex
    isAnalysisActive,  \* isAnalysisActive
    moveButtons,       \* the disabled flags of the four move buttons
    reloadTimers,      \* the setTimeout callbacks of likeCurrentPosition()
                       \* that are pending: the list cursor each has saved
    \* history of the board, for stating properties
    rawList,           \* the trimmed lines fenList was made from
    mark,              \* position, cursor and moves after the last handler
                       \* other than goToPrevMove() and goToNextMove()
    lastAct,           \* the last handler of the board that ran, with the
                       \* position, the cursors and the number of moves
                       \* it found
    \* FavoritesManager (favorites.js)
    storage,           \* localStorage[storageKey]: Null, or the string saved
    now,               \* the clock new Date() reads
    favResult,         \* what the last call of FavoritesManager returned
    \* history of the favorites, for stating properties
    favKeys,           \* the keys added and not removed since
    lastFav            \* the last call of FavoritesManager, its arguments,
                       \* and whether it found the key stored

mainVars == <<worker, isAnalyzing, analysisCallback, currentAnalysis,
              initPromise, checkReady, resolveTimer>>
proxyVars == <<engineWorker, messageQueue, isReady>>
engineVars == <<engSearch, printed, engHung>>
mainHist == <<calls, stops, invoked, slotGen, ackSeen, lastCall, lastMsg,
              doneGens, quick>>
workerHist == <<faults, proxyLog, engineLog, flushed>>
histVars == <<mainHist, workerHist>>
engineSide == <<mainVars, proxyVars, engineVars, toProxy, toEngine, fromEngine,
                toMain, histVars>>
positionVars == <<chess, initialFen, currentFenIndex, moveHistory,
                  currentMoveIndex, moveButtons, isAnalysisActive>>
favVars == <<storage, now, favResult, favKeys, lastFav>>
boardVars == <<positionVars, loadedFileName, fenList, rawList, mark, lastAct,
               favVars, reloadTimers>>
vars == <<engineSide, boardVars>>

\* the positions analyze() is called with
Fens == {1, 2}
\* the depth both front ends pass to analyze()
AnalysisDepth == 15

\* a message of the main thread to the proxy: { type, command }
NoCommand == [name |-> "", arg |-> 0, call |-> 0]
Command(name, arg, call) == [name |-> name, arg |-> arg, call |-> call]
MsgInit == [type |-> "init", command |-> NoCommand]
MsgStop == [type |-> "stop", command |-> NoCommand]
MsgCommand(c) == [type |-> "command", command |-> c]
\* the command strings the proxy itself posts to the engine
CmdUci == Command("uci", 0, 0)
CmdStop == Command("stop", 0, 0)

\* a message of the proxy to the main thread: { type, data }
Output(line, gen) == [type |-> "output", data |-> line, gen |-> gen]
Error(line) == [type |-> "error", data |-> line, gen |-> 0]
NoMsg == [type |-> "none", data |-> <<>>, gen |-> 0]

(***************************************************************************)
(* BoardAnalyzer (main.js): position strings.                              *)
(* A string is a sequence of atoms: SP is one space character, any other   *)
(* atom is a maximal run of non-space characters.                          *)
(***************************************************************************)
SP == " "

\* s.trim(): the string without its leading and trailing spaces
RECURSIVE TrimStart(_)
TrimStart(s) ==
    IF s # <<>> /\ Head(s) = SP THEN TrimStart(Tail(s)) ELSE s

RECURSIVE TrimEnd(_)
TrimEnd(s) ==
    IF s # <<>> /\ s[Len(s)] = SP THEN TrimEnd(SubSeq(s, 1, Len(s) - 1)) ELSE s

Trim(s) == TrimEnd(TrimStart(s))

\* s.split(' '): the fields between the single spaces; a field is <<>> when
\* two spaces are adjacent or the string is empty, else <<word>>
RECURSIVE Split(_)
Split(s) ==
    IF s = <<>> THEN << <<>> >>
    ELSE IF Head(s) = SP THEN << <<>> >> \o Split(Tail(s))
    ELSE LET rest == Split(Tail(s)) IN
         <<(<<Head(s)>> \o Head(rest))>> \o Tail(rest)

\* the suffix ' w - - 0 1' both normalizations append
DefaultSuffix == <<SP, "w", SP, "-", SP, "-", SP, "0", SP, "1">>

\* fen.split(' ').length < 6 ? `${fen} w - - 0 1` : fen
NormalizeFen(fen) ==
    IF Len(Split(fen)) < 6 THEN fen \o DefaultSuffix ELSE fen

\* piece placements: S is the starting placement, A and B are other legal
\* placements, X is a placement the rules engine rejects
GoodBoards == {"S", "A", "B"}

\* a position string of six fields
Fen6(board, side, castling) ==
    <<board, SP, side, SP, castling, SP, "-", SP, "0", SP, "1">>

DEFAULT_FEN == Fen6("S", "w", "KQkq")

\* new Chess(fen) does not throw: six fields, each well formed
ChessAccepts(fen) ==
    LET f == Split(fen) IN
    /\ Len(f) = 6
    /\ \E b \in GoodBoards : f[1] = <<b>>
    /\ f[2] \in {<<"w">>, <<"b">>}
    /\ f[3] \in {<<"-">>, <<"KQkq">>}
    /\ f[4] = <<"-">>
    /\ f[5] = <<"0">>
    /\ f[6] = <<"1">>

\* fenList.indexOf(fen): the first index holding fen, -1 when there is none
IndexOf(list, fen) ==
    IF \E i \in 1..Len(list) : list[i] = fen
    THEN MinOf({i \in 1..Len(list) : list[i] = fen}) - 1
    ELSE -1

(***************************************************************************)
(* The rules engine (chess.js). A position is the string it was loaded     *)
(* from and the moves made since; undo() removes the last of them.         *)
(***************************************************************************)
Position(start, played) == [start |-> start, played |-> played]

\* the moves a user can try on the board: two of white, one of black
WhiteMove1 == [from |-> "e2", to |-> "e4"]
WhiteMove2 == [from |-> "d2", to |-> "d4"]
BlackMove1 == [from |-> "e7", to |-> "e5"]
BoardMoves == {WhiteMove1, WhiteMove2, BlackMove1}

Range(seq) == {seq[i] : i \in 1..Len(seq)}

\* chess.turn()
Turn(pos) ==
    LET first == Split(pos.start)[2][1] IN
    IF Len(pos.played) % 2 = 0 THEN first
    ELSE IF first = "w" THEN "b" ELSE "w"

\* chess.moves(): a piece moves when its side is to move and it still
\* stands on its origin square
LegalMoves(pos) ==
    {m \in BoardMoves :
        /\ m \notin Range(pos.played)
        /\ (m \in {WhiteMove1, WhiteMove2}) = (Turn(pos) = "w")}

\* chess.isGameOver(): the side to move has no move
IsGameOver(pos) == LegalMoves(pos) = {}

\* chess.move(m) of a legal move
MakeMove(pos, m) == Position(pos.start, Append(pos.played, m))

\* chess.undo()
Undo(pos) ==
    IF pos.played = <<>> THEN pos
    ELSE Position(pos.start, SubSeq(pos.played, 1, Len(pos.played) - 1))

\* the moves of the sequence that chess.move() accepts one after the other,
\* up to the first it rejects
RECURSIVE Replayed(_, _)
Replayed(pos, moves) ==
    IF moves = <<>> \/ Head(moves) \notin LegalMoves(pos) THEN <<>>
    ELSE <<Head(moves)>> \o Replayed(MakeMove(pos, Head(moves)), Tail(moves))

\* the position class analyze() is called with: chess.fen() by side to move
FenOf(pos) == IF Turn(pos) = "w" THEN 1 ELSE 2

\* loadedFileName when no file is loaded
NoFile == "null"

\* updateMoveButtons() that disables next and last one move late
UpdateMoveButtonsLate(idx, history) ==
    [prev |-> idx < 0, first |-> idx < 0,
     next |-> idx >= Len(history), last |-> idx >= Len(history)]

\* updateMoveButtons(): the disabled flag of each move button
UpdateMoveButtons(idx, history) ==
    [prev |-> idx < 0, first |-> idx < 0,
     next |-> idx >= Len(history) - 1, last |-> idx >= Len(history) - 1]

(***************************************************************************)
(* The board side once init() has loaded DEFAULT_FEN (main.js 70-88).      *)
(***************************************************************************)
(***************************************************************************)
(* FavoritesManager (favorites.js). The collection is kept in one item of  *)
(* localStorage as the JSON text of an array of { fen, fileName, date }.   *)
(***************************************************************************)
\* the positions and the file names add() and remove() are called with
FavFens == {DEFAULT_FEN, Fen6("B", "b", "-")}
FavLabels == {"puzzles.txt", "other.txt"}

\* a favorite as add() builds it
Favorite(fen, fileName, date) ==
    [fen |-> fen, fileName |-> fileName, date |-> date]

\* JSON.stringify of a favorite: its properties, in the order of creation
Stringify(f) ==
    <<<<"fen", f.fen>>, <<"fileName", f.fileName>>, <<"date", f.date>>>>

\* the value of the property of the parsed object
Property(obj, name) ==
    obj[CHOOSE i \in 1..Len(obj) : obj[i][1] = name][2]

\* JSON.parse of the text of a favorite
Parse(obj) ==
    Favorite(Property(obj, "fen"), Property(obj, "fileName"),
             Property(obj, "date"))

\* JSON.stringify and JSON.parse of the array
StringifyAll(list) == [i \in 1..Len(list) |-> Stringify(list[i])]
ParseAll(text) == [i \in 1..Len(text) |-> Parse(text[i])]

\* getAll()
GetAll == IF storage = Null THEN <<>> ELSE ParseAll(storage[1])

\* favorites.some(f => f.fen === fen && f.fileName === fileName)
HasKey(list, fen, fileName) ==
    \E i \in 1..Len(list) : list[i].fen = fen /\ list[i].fileName = fileName

\* isFavorite(fen, fileName)
IsFavorite(fen, fileName) == HasKey(GetAll, fen, fileName)

\* new Date().toISOString()
DateOf(t) == ToString(t)

\* the call of FavoritesManager, for lastFav: its arguments and whether
\* the key was stored when it was made
FavCall(op, fen, fileName) ==
    [op |-> op, fen |-> fen, fileName |-> fileName,
     found |-> HasKey(GetAll, fen, fileName)]

\* new FavoritesManager() in a browser that has stored nothing yet
FavInit ==
    /\ storage = Null
    /\ now = 0
    /\ favResult = "none"
    /\ favKeys = {}
    /\ lastFav = [op |-> "none", fen |-> <<>>, fileName |-> "", found |-> FALSE]

BoardInit ==
    /\ FavInit
    /\ chess = Position(DEFAULT_FEN, <<>>)
    /\ initialFen = DEFAULT_FEN
    /\ loadedFileName = NoFile
    /\ fenList = <<>>
    /\ currentFenIndex = -1
    /\ moveHistory = <<>>
    /\ currentMoveIndex = -1
    /\ isAnalysisActive = FALSE
    /\ moveButtons = UpdateMoveButtons(-1, <<>>)
    /\ reloadTimers = <<>>
    /\ rawList = <<>>
    /\ mark = [pos |-> Position(DEFAULT_FEN, <<>>), idx |-> -1, history |-> <<>>]
    /\ lastAct = [op |-> "none", pos |-> Position(DEFAULT_FEN, <<>>), idx |-> -1,
                  len |-> 0, fenIdx |-> -1, active |-> FALSE]

Init ==
    /\ worker = "null"
    /\ isAnalyzing = FALSE
    /\ analysisCallback = 0
    /\ currentAnalysis = EmptyAnalysis
    /\ initPromise = "none"
    /\ checkReady = FALSE
    /\ resolveTimer = FALSE
    /\ engineWorker = "null"
    /\ messageQueue = <<>>
    /\ isReady = FALSE
    /\ engSearch = 0
    /\ printed = 0
    /\ engHung = FALSE
    /\ toProxy = <<>>
    /\ toEngine = <<>>
    /\ fromEngine = <<>>
    /\ toMain = <<>>
    /\ calls = 0
    /\ stops = 0
    /\ faults = 0
    /\ invoked = <<>>
    /\ slotGen = <<>>
    /\ ackSeen = FALSE
    /\ proxyLog = <<>>
    /\ engineLog = <<>>
    /\ lastCall = "none"
    /\ lastMsg = NoMsg
    /\ doneGens = {}
    /\ quick = {}
    /\ flushed = <<>>
    /\ BoardInit

(***************************************************************************)
(* StockfishEngine, main thread.                                           *)
(***************************************************************************)
\* the messages sendCommand posts for the given commands, in order
SendCommands(w, cmds) ==
    IF w = "null" THEN <<>> ELSE [i \in 1..Len(cmds) |-> MsgCommand(cmds[i])]

\* init(): new Worker succeeds and the handlers are installed
InitCall ==
    /\ initPromise = "none"
    /\ worker' = "proxy"
    /\ initPromise' = "pending"
    /\ checkReady' = TRUE
    /\ toProxy' = Append(toProxy, MsgInit)
    /\ UNCHANGED <<isAnalyzing, analysisCallback, currentAnalysis, resolveTimer,
                   proxyVars, engineVars, toEngine, fromEngine, toMain,
                   histVars, boardVars>>

\* init(): new Worker throws, the catch block rejects
InitCallThrows ==
    /\ initPromise = "none"
    /\ initPromise' = "rejected"
    /\ UNCHANGED <<worker, isAnalyzing, analysisCallback, currentAnalysis,
                   checkReady, resolveTimer, proxyVars, engineVars, toProxy,
                   toEngine, fromEngine, toMain, histVars, boardVars>>

\* the commands analyze() sends for its call
AnalyzeCommands(fen, call) ==
    <<Command("position fen", fen, call),
      Command("go depth", AnalysisDepth, call)>>

\* analyze() that keeps a callback that is still registered
AnalyzeKeepsCallback(fen) ==
    /\ calls' = calls + 1
    /\ isAnalyzing' = TRUE
    /\ analysisCallback' = IF analysisCallback # 0 THEN analysisCallback
                           ELSE calls + 1
    /\ currentAnalysis' = EmptyAnalysis
    /\ slotGen' = <<>>
    /\ toProxy' = toProxy \o SendCommands(worker, AnalyzeCommands(fen, calls + 1))
    /\ lastCall' = "analyze"
    /\ lastMsg' = NoMsg
    /\ quick' = IF lastCall = "analyze" /\ calls \notin doneGens
                THEN quick \cup {calls + 1} ELSE quick
    /\ UNCHANGED <<worker, initPromise, checkReady, resolveTimer, proxyVars,
                   engineVars, toEngine, fromEngine, toMain, stops, invoked,
                   ackSeen, doneGens, workerHist>>

\* analyze(fen, depth, callback): the callback of the k-th call is k
Analyze(fen) ==
    /\ calls' = calls + 1
    /\ isAnalyzing' = TRUE
    /\ analysisCallback' = calls + 1
    /\ currentAnalysis' = EmptyAnalysis
    /\ slotGen' = <<>>
    /\ toProxy' = toProxy \o SendCommands(worker, AnalyzeCommands(fen, calls + 1))
    /\ lastCall' = "analyze"
    /\ lastMsg' = NoMsg
    /\ quick' = IF lastCall = "analyze" /\ calls \notin doneGens
                THEN quick \cup {calls + 1} ELSE quick
    /\ UNCHANGED <<worker, initPromise, checkReady, resolveTimer, proxyVars,
                   engineVars, toEngine, fromEngine, toMain, stops, invoked,
                   ackSeen, doneGens, workerHist>>

\* stop() that only tells the worker and leaves the callback registered
StopKeepsCallback ==
    /\ stops' = stops + 1
    /\ isAnalyzing' = FALSE
    /\ toProxy' = IF worker = "null" THEN toProxy ELSE Append(toProxy, MsgStop)
    /\ lastCall' = "stop"
    /\ lastMsg' = NoMsg
    /\ UNCHANGED <<worker, analysisCallback, currentAnalysis, initPromise,
                   checkReady, resolveTimer, proxyVars, engineVars, toEngine,
                   fromEngine, toMain, calls, invoked, slotGen, ackSeen,
                   doneGens, quick, workerHist>>

\* stop()
Stop ==
    /\ stops' = stops + 1
    /\ isAnalyzing' = FALSE
    /\ analysisCallback' = 0
    /\ toProxy' = IF worker = "null" THEN toProxy ELSE Append(toProxy, MsgStop)
    /\ lastCall' = "stop"
    /\ lastMsg' = NoMsg
    /\ UNCHANGED <<worker, currentAnalysis, initPromise, checkReady,
                   resolveTimer, proxyVars, engineVars, toEngine, fromEngine,
                   toMain, calls, invoked, slotGen, ackSeen, doneGens, quick,
                   workerHist>>

\* gens[idx] = g, as SetSlot, for the history of the slots
SetGen(gens, idx, g) ==
    IF idx < 0 THEN gens
    ELSE IF idx < Len(gens) THEN [gens EXCEPT ![idx + 1] = g]
    ELSE gens \o [i \in 1..(idx - Len(gens)) |-> 0] \o <<g>>

\* the object analysisCallback is called with at a bestmove line
ResultOf(agg) ==
    [error |-> Null, score |-> agg.score, mate |-> agg.mate,
     depth |-> agg.depth, moves |-> FilterDefined(agg.moves)]

\* the object analysisCallback is called with at an error message
ErrorResult(data) ==
    [error |-> data, score |-> Null, mate |-> Null, depth |-> 0, moves |-> <<>>]

\* one invocation of callback cb, the search of the message that triggered
\* it and the searches whose lines are in the aggregate
Invocation(cb, result, trigger, sources) ==
    [cb |-> cb, result |-> result, trigger |-> trigger, sources |-> sources]

\* handleMessage(e) that only logs an error message
HandleMessageDropsError(msg, cb, agg, gens) ==
    IF msg.type = "output"
    THEN IF BestmoveFires(cb, UpdateAnalysis(agg, msg.data), msg.data)
         THEN <<Invocation(cb, ResultOf(UpdateAnalysis(agg, msg.data)), msg.gen,
                           {gens[i] : i \in 1..Len(gens)} \ {0})>>
         ELSE <<>>
    ELSE <<>>

\* handleMessage(e), with parseEngineOutput: the callback invocations it makes
HandleMessageInvokes(msg, cb, agg, gens) ==
    IF msg.type = "output"
    THEN IF BestmoveFires(cb, UpdateAnalysis(agg, msg.data), msg.data)
         THEN <<Invocation(cb, ResultOf(UpdateAnalysis(agg, msg.data)), msg.gen,
                           {gens[i] : i \in 1..Len(gens)} \ {0})>>
         ELSE <<>>
    ELSE IF msg.type = "error" /\ cb # 0
         THEN <<Invocation(cb, ErrorResult(msg.data), msg.gen, {})>>
         ELSE <<>>

\* handleMessage(e): the aggregate it leaves
HandleMessageAnalysis(msg, agg) ==
    IF msg.type = "output" THEN UpdateAnalysis(agg, msg.data) ELSE agg

\* handleMessage(e): the callback it leaves registered
HandleMessageCallback(msg, cb) == cb

\* the commands checkReady sends when it sees uciok
SetupCommands ==
    <<Command("setoption name MultiPV value", 3, 0),
      Command("setoption name Threads value", 2, 0),
      Command("isready", 0, 0)>>

\* checkReady sees the handshake acknowledgment
SeesUciok(msg, listening) ==
    listening /\ msg.type = "output" /\ msg.data = L.uciok

\* checkReady sees an error message
SeesError(msg, listening) == listening /\ msg.type = "error"

\* a message of the worker arrives: worker.onmessage (handleMessage) runs,
\* then the checkReady listener if it is still registered
OnWorkerMessage ==
    /\ toMain # <<>>
    /\ LET msg == Head(toMain) IN
        /\ toMain' = Tail(toMain)
        /\ currentAnalysis' = HandleMessageAnalysis(msg, currentAnalysis)
        /\ analysisCallback' = HandleMessageCallback(msg, analysisCallback)
        /\ slotGen' = IF msg.type = "output" /\ IsProgressUpdate(msg.data)
                      THEN SetGen(slotGen, LineMultiPv(msg.data) - 1, msg.gen)
                      ELSE slotGen
        /\ invoked' = invoked \o HandleMessageInvokes(msg, analysisCallback,
                                                      currentAnalysis, slotGen)
        /\ ackSeen' = (ackSeen \/ (msg.type = "output" /\ msg.data = L.uciok))
        /\ doneGens' = IF msg.type = "output" /\ IsBestmoveLine(msg.data)
                       THEN doneGens \cup {msg.gen} ELSE doneGens
        /\ lastMsg' = msg
        /\ checkReady' = (checkReady /\ ~SeesUciok(msg, checkReady))
        /\ toProxy' = IF SeesUciok(msg, checkReady)
                      THEN toProxy \o SendCommands(worker, SetupCommands)
                      ELSE toProxy
        /\ resolveTimer' = (resolveTimer \/ SeesUciok(msg, checkReady))
        /\ initPromise' = IF SeesError(msg, checkReady) /\ initPromise = "pending"
                          THEN "rejected" ELSE initPromise
    /\ UNCHANGED <<worker, isAnalyzing, proxyVars, engineVars, toEngine,
                   fromEngine, calls, stops, lastCall, quick, workerHist,
                   boardVars>>

\* setTimeout(() => resolve(), 500) fires
ResolveTimerFires ==
    /\ resolveTimer
    /\ resolveTimer' = FALSE
    /\ initPromise' = IF initPromise = "pending" THEN "resolved" ELSE initPromise
    /\ UNCHANGED <<worker, isAnalyzing, analysisCallback, currentAnalysis,
                   checkReady, proxyVars, engineVars, toProxy, toEngine,
                   fromEngine, toMain, histVars, boardVars>>

\* worker.onerror: the proxy script itself failed
WorkerOnError ==
    /\ worker # "null"
    /\ faults' = faults + 1
    /\ initPromise' = IF initPromise = "pending" THEN "rejected" ELSE initPromise
    /\ UNCHANGED <<worker, isAnalyzing, analysisCallback, currentAnalysis,
                   checkReady, resolveTimer, proxyVars, engineVars, toProxy,
                   toEngine, fromEngine, toMain, mainHist, proxyLog, engineLog,
                   flushed, boardVars>>

(***************************************************************************)
(* The worker proxy.                                                       *)
(***************************************************************************)
\* self.onmessage, type 'init': initStockfish creates the engine worker
ProxyInit ==
    /\ toProxy # <<>>
    /\ Head(toProxy).type = "init"
    /\ toProxy' = Tail(toProxy)
    /\ engineWorker' = "engine"
    /\ toEngine' = IF engineWorker = "null" THEN Append(toEngine, CmdUci)
                   ELSE toEngine
    /\ UNCHANGED <<mainVars, messageQueue, isReady, engineVars, fromEngine,
                   toMain, histVars, boardVars>>

\* self.onmessage, type 'init': new Worker throws in initStockfish
ProxyInitFails ==
    /\ toProxy # <<>>
    /\ Head(toProxy).type = "init"
    /\ engineWorker = "null"
    /\ toProxy' = Tail(toProxy)
    /\ toMain' = Append(toMain, Error(L.failed))
    /\ UNCHANGED <<mainVars, proxyVars, engineVars, toEngine, fromEngine,
                   histVars, boardVars>>

\* a test that forgets isReady
ForwardsWithoutReady(ready, ew) == ew # "null"

\* type 'command': the command goes to the engine, or else to the queue
ForwardsCommand(ready, ew) == ready /\ ew # "null"

\* self.onmessage, type 'command'
ProxyCommand ==
    /\ toProxy # <<>>
    /\ Head(toProxy).type = "command"
    /\ LET command == Head(toProxy).command IN
        /\ toProxy' = Tail(toProxy)
        /\ proxyLog' = Append(proxyLog, command)
        /\ IF ForwardsCommand(isReady, engineWorker)
           THEN /\ toEngine' = Append(toEngine, command)
                /\ UNCHANGED messageQueue
           ELSE /\ messageQueue' = Append(messageQueue, command)
                /\ UNCHANGED toEngine
    /\ UNCHANGED <<mainVars, engineWorker, isReady, engineVars, fromEngine,
                   toMain, mainHist, faults, engineLog, flushed, boardVars>>

\* self.onmessage, type 'stop'
ProxyStop ==
    /\ toProxy # <<>>
    /\ Head(toProxy).type = "stop"
    /\ toProxy' = Tail(toProxy)
    /\ toEngine' = IF engineWorker # "null" THEN Append(toEngine, CmdStop)
                   ELSE toEngine
    /\ UNCHANGED <<mainVars, proxyVars, engineVars, fromEngine, toMain,
                   histVars, boardVars>>

\* the order in which the while loop of the flush posts the queue
FlushOrder(queue) == queue

\* engineWorker.onmessage: forward the line, at uciok flush the queue
ProxyOnEngineMessage ==
    /\ fromEngine # <<>>
    /\ LET m == Head(fromEngine) IN
        /\ fromEngine' = Tail(fromEngine)
        /\ toMain' = Append(toMain, Output(m.data, m.gen))
        /\ IF m.data = L.uciok
           THEN /\ isReady' = TRUE
                /\ toEngine' = toEngine \o FlushOrder(messageQueue)
                /\ messageQueue' = <<>>
                /\ flushed' = flushed \o messageQueue
           ELSE UNCHANGED <<isReady, toEngine, messageQueue, flushed>>
    /\ UNCHANGED <<mainVars, engineWorker, engineVars, toProxy, mainHist,
                   faults, proxyLog, engineLog, boardVars>>

\* engineWorker.onerror
ProxyOnEngineError ==
    /\ engineWorker # "null"
    /\ faults' = faults + 1
    /\ toMain' = Append(toMain, Error(L.fault))
    /\ UNCHANGED <<mainVars, proxyVars, engineVars, toProxy, toEngine,
                   fromEngine, mainHist, proxyLog, engineLog, flushed,
                   boardVars>>

(***************************************************************************)
(* The engine process: it reads its commands in order, starts a search at  *)
(* "go" once the previous search has ended, prints progress lines and ends *)
(* every search with one bestmove line.                                    *)
(***************************************************************************)
EngineLine(line, gen) == [data |-> line, gen |-> gen]

\* the engine reads "uci" and acknowledges
EngineUciOk ==
    /\ ~engHung
    /\ toEngine # <<>>
    /\ Head(toEngine) = CmdUci
    /\ toEngine' = Tail(toEngine)
    /\ engineLog' = Append(engineLog, Head(toEngine))
    /\ fromEngine' = Append(fromEngine, EngineLine(L.uciok, 0))
    /\ UNCHANGED <<mainVars, proxyVars, engineVars, toProxy, toMain, mainHist,
                   faults, proxyLog, flushed, boardVars>>

\* the engine reads "uci" and never answers
EngineUciHangs ==
    /\ ~engHung
    /\ toEngine # <<>>
    /\ Head(toEngine) = CmdUci
    /\ toEngine' = Tail(toEngine)
    /\ engineLog' = Append(engineLog, Head(toEngine))
    /\ engHung' = TRUE
    /\ UNCHANGED <<mainVars, proxyVars, engSearch, printed, toProxy,
                   fromEngine, toMain, mainHist, faults, proxyLog, flushed,
                   boardVars>>

\* the engine reads any other command
EngineCommand ==
    /\ ~engHung
    /\ toEngine # <<>>
    /\ LET c == Head(toEngine) IN
        /\ c # CmdUci
        /\ c.name = "go depth" => engSearch = 0
        /\ toEngine' = Tail(toEngine)
        /\ engineLog' = Append(engineLog, c)
        /\ engSearch' = IF c.name = "go depth" THEN c.call
                        ELSE IF c.name = "stop" THEN 0 ELSE engSearch
        /\ UNCHANGED printed
        /\ fromEngine' =
             IF c.name = "stop" /\ engSearch # 0
             THEN Append(fromEngine, EngineLine(L.bestmove, engSearch))
             ELSE IF c.name = "isready"
                  THEN Append(fromEngine, EngineLine(L.readyok, 0))
                  ELSE fromEngine
    /\ UNCHANGED <<mainVars, proxyVars, engHung, toProxy, toMain, mainHist,
                   faults, proxyLog, flushed, boardVars>>

\* the running search prints a progress line
EngineInfo(line) ==
    /\ ~engHung
    /\ engSearch # 0
    /\ printed' = printed + 1
    /\ fromEngine' = Append(fromEngine, EngineLine(line, engSearch))
    /\ UNCHANGED <<mainVars, proxyVars, engSearch, engHung, toProxy, toEngine,
                   toMain, histVars, boardVars>>

\* the running search ends
EngineBestmove ==
    /\ ~engHung
    /\ engSearch # 0
    /\ engSearch' = 0
    /\ fromEngine' = Append(fromEngine, EngineLine(L.bestmove, engSearch))
    /\ UNCHANGED <<mainVars, proxyVars, printed, engHung, toProxy, toEngine,
                   toMain, histVars, boardVars>>

(***************************************************************************)
(* BoardAnalyzer (main.js): the handlers.                                  *)
(***************************************************************************)
\* the record of the handler that runs
Act(op) ==
    [op |-> op, pos |-> chess, idx |-> currentMoveIndex,
     len |-> Len(moveHistory), fenIdx |-> currentFenIndex,
     active |-> isAnalysisActive]

\* the state after the handler, as the snapshot undo() and redo() are
\* compared against
Snapshot ==
    [pos |-> chess', idx |-> currentMoveIndex', history |-> moveHistory']

\* runAnalysis() that does not ask whether the game is over
RunAnalysisAlways(pos) == Analyze(FenOf(pos))

\* runAnalysis() for the position
RunAnalysis(pos) ==
    IF IsGameOver(pos) THEN UNCHANGED engineSide ELSE Analyze(FenOf(pos))

\* toggleAnalysis() that turns the analysis off without calling stop()
ToggleAnalysisKeepsSearch ==
    /\ isAnalysisActive' = ~isAnalysisActive
    /\ IF isAnalysisActive' THEN RunAnalysis(chess) ELSE UNCHANGED engineSide
    /\ UNCHANGED <<chess, initialFen, loadedFileName, fenList,
                   currentFenIndex, moveHistory, currentMoveIndex,
                   moveButtons, rawList>>
    /\ mark' = Snapshot
    /\ lastAct' = Act("toggleAnalysis")
    /\ UNCHANGED <<favVars, reloadTimers>>

\* toggleAnalysis(), called by the user
ToggleAnalysis ==
    /\ isAnalysisActive' = ~isAnalysisActive
    /\ IF isAnalysisActive' THEN RunAnalysis(chess) ELSE Stop
    /\ UNCHANGED <<chess, initialFen, loadedFileName, fenList,
                   currentFenIndex, moveHistory, currentMoveIndex,
                   moveButtons, rawList>>
    /\ mark' = Snapshot
    /\ lastAct' = Act("toggleAnalysis")
    /\ UNCHANGED <<favVars, reloadTimers>>

\* loadPosition(fen) that leaves the analysis switch and the engine alone
LoadPositionKeepsAnalysis(list, n) ==
    /\ initialFen' = n
    /\ chess' = Position(n, <<>>)
    /\ currentFenIndex' = IndexOf(list, n)
    /\ moveHistory' = <<>>
    /\ currentMoveIndex' = -1
    /\ moveButtons' = UpdateMoveButtons(-1, <<>>)
    /\ UNCHANGED <<isAnalysisActive, engineSide>>

\* loadPosition(fen) once new Chess(n) has accepted the normalized string n;
\* list is this.fenList at the call
LoadPositionAccepted(list, n) ==
    /\ initialFen' = n
    /\ chess' = Position(n, <<>>)
    /\ currentFenIndex' = IndexOf(list, n)
    /\ moveHistory' = <<>>
    /\ currentMoveIndex' = -1
    /\ moveButtons' = UpdateMoveButtons(-1, <<>>)
    /\ IF isAnalysisActive
       THEN isAnalysisActive' = FALSE /\ Stop
       ELSE UNCHANGED <<isAnalysisActive, engineSide>>

\* loadPosition(fen) that records the starting position before the rules
\* engine has validated it
LoadPositionCallRecordsFirst(list, fen) ==
    IF ChessAccepts(NormalizeFen(fen))
    THEN LoadPositionAccepted(list, NormalizeFen(fen))
    ELSE /\ initialFen' = NormalizeFen(fen)
         /\ UNCHANGED <<chess, currentFenIndex, moveHistory, currentMoveIndex,
                        moveButtons, isAnalysisActive, engineSide>>

\* loadPosition(fen) as a whole: nothing but the error text changes when
\* new Chess(n) throws
LoadPositionCall(list, fen) ==
    IF ChessAccepts(NormalizeFen(fen))
    THEN LoadPositionAccepted(list, NormalizeFen(fen))
    ELSE UNCHANGED <<positionVars, engineSide>>

\* the strings the user enters in the position field
PositionInputs ==
    {<<"A">>, <<"X">>, <<"A", SP, "b">>, Fen6("B", "b", "-")}

\* the position field, Enter pressed
LoadPosition(fen) ==
    /\ LoadPositionCall(fenList, fen)
    /\ UNCHANGED <<loadedFileName, fenList, rawList>>
    /\ mark' = Snapshot
    /\ lastAct' = Act("loadPosition")
    /\ UNCHANGED <<favVars, reloadTimers>>

\* the indices from..to in increasing and in decreasing order
Upto(from, to) == [i \in 1..(to - from + 1) |-> from + i - 1]
Downto(from, to) == [i \in 1..(from - to + 1) |-> from - i + 1]

\* loadPosition(list[i]) returns true; an index outside the list yields
\* undefined, on which fen.split throws inside the try block
EntryAccepted(list, i) ==
    /\ i + 1 \in 1..Len(list)
    /\ ChessAccepts(NormalizeFen(list[i + 1]))

\* currentFenIndex is set to each index of order in turn and the entry is
\* passed to loadPosition, until one is accepted
TryEntries(list, order) ==
    LET hits == {p \in 1..Len(order) : EntryAccepted(list, order[p])} IN
    IF hits # {}
    THEN LoadPositionAccepted(list, NormalizeFen(list[order[MinOf(hits)] + 1]))
    ELSE /\ currentFenIndex' = order[Len(order)]
         /\ UNCHANGED <<chess, initialFen, moveHistory, currentMoveIndex,
                        moveButtons, isAnalysisActive, engineSide>>

\* the lines of the text that are kept: trimmed and not empty
RECURSIVE KeptLines(_)
KeptLines(lines) ==
    IF lines = <<>> THEN <<>>
    ELSE IF Trim(Head(lines)) = <<>> THEN KeptLines(Tail(lines))
    ELSE <<Trim(Head(lines))>> \o KeptLines(Tail(lines))

\* loadedFileName after loadFenList(fensString, sourceName)
NameAfterLoad(text, sourceName) ==
    IF text = << <<>> >> THEN loadedFileName ELSE sourceName

\* loadFenList(fensString, sourceName) but for loadedFileName; the text is
\* the sequence of its lines
LoadFenList(text) ==
    IF text = << <<>> >>
    THEN UNCHANGED <<positionVars, fenList, rawList, engineSide>>
    ELSE LET kept == KeptLines(text)
             list == [i \in 1..Len(kept) |-> NormalizeFen(kept[i])] IN
         /\ fenList' = list
         /\ rawList' = kept
         /\ IF Len(list) > 0
            THEN TryEntries(list, Upto(0, Len(list) - 1))
            ELSE UNCHANGED <<positionVars, engineSide>>

\* the paste handler: loadFenList(text)
Paste(text) ==
    /\ LoadFenList(text)
    /\ loadedFileName' = NameAfterLoad(text, NoFile)
    /\ mark' = Snapshot
    /\ lastAct' = Act("loadFenList")
    /\ UNCHANGED <<favVars, reloadTimers>>

\* reader.onload of handleFileUpload: loadFenList(content, file.name), then
\* loadedFileName = file.name
FileRead(text) ==
    /\ LoadFenList(text)
    /\ loadedFileName' = "puzzles.txt"
    /\ mark' = Snapshot
    /\ lastAct' = Act("loadFenList")
    /\ UNCHANGED <<favVars, reloadTimers>>

\* clearFile()
ClearFile ==
    /\ fenList' = <<>>
    /\ rawList' = <<>>
    /\ loadedFileName' = NoFile
    /\ LoadPositionCall(<<>>, DEFAULT_FEN)
    /\ mark' = Snapshot
    /\ lastAct' = Act("clearFile")
    /\ UNCHANGED <<favVars, reloadTimers>>

\* loadPrevFen() with loadPrevFenSkipInvalid()
LoadPrevFen ==
    /\ IF currentFenIndex > 0
       THEN TryEntries(fenList, Downto(currentFenIndex - 1, 0))
       ELSE UNCHANGED <<positionVars, engineSide>>
    /\ UNCHANGED <<loadedFileName, fenList, rawList>>
    /\ mark' = Snapshot
    /\ lastAct' = Act("loadPrevFen")
    /\ UNCHANGED <<favVars, reloadTimers>>

\* loadNextFen() without loadNextFenSkipInvalid()
LoadNextFenNoSkip ==
    /\ IF currentFenIndex < Len(fenList) - 1
       THEN TryEntries(fenList, <<currentFenIndex + 1>>)
       ELSE UNCHANGED <<positionVars, engineSide>>
    /\ UNCHANGED <<loadedFileName, fenList, rawList>>
    /\ mark' = Snapshot
    /\ lastAct' = Act("loadNextFen")
    /\ UNCHANGED <<favVars, reloadTimers>>

\* loadNextFen() with loadNextFenSkipInvalid()
LoadNextFen ==
    /\ IF currentFenIndex < Len(fenList) - 1
       THEN TryEntries(fenList, Upto(currentFenIndex + 1, Len(fenList) - 1))
       ELSE UNCHANGED <<positionVars, engineSide>>
    /\ UNCHANGED <<loadedFileName, fenList, rawList>>
    /\ mark' = Snapshot
    /\ lastAct' = Act("loadNextFen")
    /\ UNCHANGED <<favVars, reloadTimers>>

\* jumpToPosition(positionNumber) that, the target rejected, looks for an
\* accepted entry from the start of the list
JumpToPositionFromStart(positionNumber) ==
    /\ IF \/ Len(fenList) = 0
          \/ positionNumber = Null
          \/ positionNumber[1] < 1
          \/ positionNumber[1] > Len(fenList)
          \/ positionNumber[1] - 1 = currentFenIndex
       THEN UNCHANGED <<positionVars, engineSide>>
       ELSE TryEntries(fenList, <<positionNumber[1] - 1>>
                                   \o Upto(0, Len(fenList) - 1))
    /\ UNCHANGED <<loadedFileName, fenList, rawList>>
    /\ mark' = Snapshot
    /\ lastAct' = Act("jumpToPosition")
    /\ UNCHANGED <<favVars, reloadTimers>>

\* jumpToPosition(positionNumber) that reloads the entry the cursor is on
JumpToPositionReloads(positionNumber) ==
    /\ IF \/ Len(fenList) = 0
          \/ positionNumber = Null
          \/ positionNumber[1] < 1
          \/ positionNumber[1] > Len(fenList)
       THEN UNCHANGED <<positionVars, engineSide>>
       ELSE TryEntries(fenList, Upto(positionNumber[1] - 1, Len(fenList) - 1))
    /\ UNCHANGED <<loadedFileName, fenList, rawList>>
    /\ mark' = Snapshot
    /\ lastAct' = Act("jumpToPosition")
    /\ UNCHANGED <<favVars, reloadTimers>>

\* jumpToPosition(positionNumber): Null is NaN
JumpToPosition(positionNumber) ==
    /\ IF \/ Len(fenList) = 0
          \/ positionNumber = Null
          \/ positionNumber[1] < 1
          \/ positionNumber[1] > Len(fenList)
          \/ positionNumber[1] - 1 = currentFenIndex
       THEN UNCHANGED <<positionVars, engineSide>>
       ELSE TryEntries(fenList, Upto(positionNumber[1] - 1, Len(fenList) - 1))
    /\ UNCHANGED <<loadedFileName, fenList, rawList>>
    /\ mark' = Snapshot
    /\ lastAct' = Act("jumpToPosition")
    /\ UNCHANGED <<favVars, reloadTimers>>

\* updateBoardAfterNav()
UpdateBoardAfterNav ==
    /\ moveButtons' = UpdateMoveButtons(currentMoveIndex', moveHistory')
    /\ IF isAnalysisActive THEN RunAnalysis(chess') ELSE UNCHANGED engineSide

\* onMove(orig, dest) that records the move whether or not the rules
\* engine has accepted it
OnMoveRecordsRejected(m) ==
    /\ IF m \in LegalMoves(chess)
       THEN /\ chess' = MakeMove(chess, m)
            /\ IF ~IsGameOver(chess') /\ isAnalysisActive
               THEN RunAnalysis(chess')
               ELSE UNCHANGED engineSide
       ELSE UNCHANGED <<chess, engineSide>>
    /\ moveHistory' =
         Append(IF currentMoveIndex < Len(moveHistory) - 1
                THEN SubSeq(moveHistory, 1, currentMoveIndex + 1)
                ELSE moveHistory, m)
    /\ currentMoveIndex' = currentMoveIndex + 1
    /\ moveButtons' = UpdateMoveButtons(currentMoveIndex', moveHistory')
    /\ UNCHANGED <<initialFen, currentFenIndex, isAnalysisActive,
                   loadedFileName, fenList, rawList>>
    /\ mark' = Snapshot
    /\ lastAct' = Act("onMove")
    /\ UNCHANGED <<favVars, reloadTimers>>

\* onMove(orig, dest) that keeps the moves after the cursor
OnMoveKeepsTail(m) ==
    /\ IF m \in LegalMoves(chess)
       THEN /\ chess' = MakeMove(chess, m)
            /\ IF ~IsGameOver(chess') /\ isAnalysisActive
               THEN RunAnalysis(chess')
               ELSE UNCHANGED engineSide
            /\ moveHistory' = Append(moveHistory, m)
            /\ currentMoveIndex' = currentMoveIndex + 1
            /\ moveButtons' = UpdateMoveButtons(currentMoveIndex', moveHistory')
       ELSE UNCHANGED <<chess, moveHistory, currentMoveIndex, moveButtons,
                        engineSide>>
    /\ UNCHANGED <<initialFen, currentFenIndex, isAnalysisActive,
                   loadedFileName, fenList, rawList>>
    /\ mark' = Snapshot
    /\ lastAct' = Act("onMove")
    /\ UNCHANGED <<favVars, reloadTimers>>

\* onMove(orig, dest)
OnMove(m) ==
    /\ IF m \in LegalMoves(chess)
       THEN /\ chess' = MakeMove(chess, m)
            /\ IF ~IsGameOver(chess') /\ isAnalysisActive
               THEN RunAnalysis(chess')
               ELSE UNCHANGED engineSide
            /\ moveHistory' =
                 Append(IF currentMoveIndex < Len(moveHistory) - 1
                        THEN SubSeq(moveHistory, 1, currentMoveIndex + 1)
                        ELSE moveHistory, m)
            /\ currentMoveIndex' = currentMoveIndex + 1
            /\ moveButtons' = UpdateMoveButtons(currentMoveIndex', moveHistory')
       ELSE UNCHANGED <<chess, moveHistory, currentMoveIndex, moveButtons,
                        engineSide>>
    /\ UNCHANGED <<initialFen, currentFenIndex, isAnalysisActive,
                   loadedFileName, fenList, rawList>>
    /\ mark' = Snapshot
    /\ lastAct' = Act("onMove")
    /\ UNCHANGED <<favVars, reloadTimers>>

\* goToPrevMove() that moves the cursor and leaves the rules engine alone
GoToPrevMoveKeepsBoard ==
    /\ IF currentMoveIndex >= 0
       THEN /\ currentMoveIndex' = currentMoveIndex - 1
            /\ UNCHANGED <<chess, moveHistory>>
            /\ UpdateBoardAfterNav
       ELSE UNCHANGED <<chess, moveHistory, currentMoveIndex, moveButtons,
                        engineSide>>
    /\ UNCHANGED <<initialFen, currentFenIndex, isAnalysisActive,
                   loadedFileName, fenList, rawList, mark>>
    /\ lastAct' = Act("goToPrevMove")
    /\ UNCHANGED <<favVars, reloadTimers>>

\* goToPrevMove()
GoToPrevMove ==
    /\ IF currentMoveIndex >= 0
       THEN /\ chess' = Undo(chess)
            /\ currentMoveIndex' = currentMoveIndex - 1
            /\ UNCHANGED moveHistory
            /\ UpdateBoardAfterNav
       ELSE UNCHANGED <<chess, moveHistory, currentMoveIndex, moveButtons,
                        engineSide>>
    /\ UNCHANGED <<initialFen, currentFenIndex, isAnalysisActive,
                   loadedFileName, fenList, rawList, mark>>
    /\ lastAct' = Act("goToPrevMove")
    /\ UNCHANGED <<favVars, reloadTimers>>

\* goToNextMove() that moves the cursor and leaves the rules engine alone
GoToNextMoveKeepsBoard ==
    /\ IF currentMoveIndex < Len(moveHistory) - 1
       THEN /\ currentMoveIndex' = currentMoveIndex + 1
            /\ UNCHANGED <<chess, moveHistory>>
            /\ UpdateBoardAfterNav
       ELSE UNCHANGED <<chess, moveHistory, currentMoveIndex, moveButtons,
                        engineSide>>
    /\ UNCHANGED <<initialFen, currentFenIndex, isAnalysisActive,
                   loadedFileName, fenList, rawList, mark>>
    /\ lastAct' = Act("goToNextMove")
    /\ UNCHANGED <<favVars, reloadTimers>>

\* goToNextMove(); chess.move() throws when it rejects the move
GoToNextMove ==
    /\ IF /\ currentMoveIndex < Len(moveHistory) - 1
          /\ moveHistory[currentMoveIndex + 2] \in LegalMoves(chess)
       THEN /\ chess' = MakeMove(chess, moveHistory[currentMoveIndex + 2])
            /\ currentMoveIndex' = currentMoveIndex + 1
            /\ UNCHANGED moveHistory
            /\ UpdateBoardAfterNav
       ELSE UNCHANGED <<chess, moveHistory, currentMoveIndex, moveButtons,
                        engineSide>>
    /\ UNCHANGED <<initialFen, currentFenIndex, isAnalysisActive,
                   loadedFileName, fenList, rawList, mark>>
    /\ lastAct' = Act("goToNextMove")
    /\ UNCHANGED <<favVars, reloadTimers>>

\* goToFirstMove()
GoToFirstMove ==
    /\ IF currentMoveIndex >= 0
       THEN LoadPositionCall(fenList, initialFen)
       ELSE UNCHANGED <<positionVars, engineSide>>
    /\ UNCHANGED <<loadedFileName, fenList, rawList>>
    /\ mark' = Snapshot
    /\ lastAct' = Act("goToFirstMove")
    /\ UNCHANGED <<favVars, reloadTimers>>

\* goToLastMove() without the loop: one move is made again
GoToLastMoveOneStep ==
    /\ IF currentMoveIndex < Len(moveHistory) - 1
       THEN /\ chess' = MakeMove(chess, moveHistory[currentMoveIndex + 2])
            /\ currentMoveIndex' = currentMoveIndex + 1
            /\ UNCHANGED moveHistory
            /\ UpdateBoardAfterNav
       ELSE UNCHANGED <<chess, moveHistory, currentMoveIndex, moveButtons,
                        engineSide>>
    /\ UNCHANGED <<initialFen, currentFenIndex, isAnalysisActive,
                   loadedFileName, fenList, rawList>>
    /\ mark' = Snapshot
    /\ lastAct' = Act("goToLastMove")
    /\ UNCHANGED <<favVars, reloadTimers>>

\* goToLastMove(); when chess.move() throws, the loop ends where it is and
\* updateBoardAfterNav() is not reached
GoToLastMove ==
    /\ IF currentMoveIndex < Len(moveHistory) - 1
       THEN LET rest == SubSeq(moveHistory, currentMoveIndex + 2,
                               Len(moveHistory))
                done == Replayed(chess, rest) IN
            /\ chess' = Position(chess.start, chess.played \o done)
            /\ currentMoveIndex' = currentMoveIndex + Len(done)
            /\ UNCHANGED moveHistory
            /\ IF Len(done) = Len(rest)
               THEN UpdateBoardAfterNav
               ELSE UNCHANGED <<moveButtons, engineSide>>
       ELSE UNCHANGED <<chess, moveHistory, currentMoveIndex, moveButtons,
                        engineSide>>
    /\ UNCHANGED <<initialFen, currentFenIndex, isAnalysisActive,
                   loadedFileName, fenList, rawList>>
    /\ mark' = Snapshot
    /\ lastAct' = Act("goToLastMove")
    /\ UNCHANGED <<favVars, reloadTimers>>

(***************************************************************************)
(* The calls of FavoritesManager. setItem() throws when the browser        *)
(* refuses the write (quota exceeded): writes is FALSE then.               *)
(***************************************************************************)
\* the engine and the board, which FavoritesManager does not touch
notFavorites ==
    <<engineSide, positionVars, loadedFileName, fenList, rawList, mark,
      lastAct>>

\* add(fen, fileName) that looks for the position only
FavAddFenOnly(fen, fileName, tick, writes) ==
    LET favorites == GetAll
        exists == \E i \in 1..Len(favorites) : favorites[i].fen = fen IN
    /\ now' = now + tick
    /\ IF exists
       THEN /\ favResult' = "false"
            /\ UNCHANGED storage
       ELSE IF writes
       THEN /\ storage' = Some(StringifyAll(
                  Append(favorites, Favorite(fen, fileName, DateOf(now')))))
            /\ favResult' = "true"
       ELSE /\ favResult' = "threw"
            /\ UNCHANGED storage
    /\ favKeys' = IF favResult' = "threw" THEN favKeys
                  ELSE favKeys \cup {<<fen, fileName>>}
    /\ lastFav' = FavCall("add", fen, fileName)
    /\ UNCHANGED notFavorites

\* add(fen, fileName); the clock advances by tick before it is read
FavAdd(fen, fileName, tick, writes) ==
    LET favorites == GetAll IN
    /\ now' = now + tick
    /\ IF HasKey(favorites, fen, fileName)
       THEN /\ favResult' = "false"
            /\ UNCHANGED storage
       ELSE IF writes
       THEN /\ storage' = Some(StringifyAll(
                  Append(favorites, Favorite(fen, fileName, DateOf(now')))))
            /\ favResult' = "true"
       ELSE /\ favResult' = "threw"
            /\ UNCHANGED storage
    /\ favKeys' = IF favResult' = "threw" THEN favKeys
                  ELSE favKeys \cup {<<fen, fileName>>}
    /\ lastFav' = FavCall("add", fen, fileName)
    /\ UNCHANGED notFavorites

\* remove(fen, fileName) that filters on the position only
FavRemoveFenOnly(fen, fileName, writes) ==
    LET Keep(f) == ~(f.fen = fen) IN
    /\ IF writes
       THEN /\ storage' = Some(StringifyAll(SelectSeq(GetAll, Keep)))
            /\ favResult' = "undefined"
       ELSE /\ favResult' = "threw"
            /\ UNCHANGED storage
    /\ favKeys' = IF writes THEN favKeys \ {<<fen, fileName>>} ELSE favKeys
    /\ lastFav' = FavCall("remove", fen, fileName)
    /\ UNCHANGED <<now, notFavorites>>

\* remove(fen, fileName)
FavRemove(fen, fileName, writes) ==
    LET Keep(f) == ~(f.fen = fen /\ f.fileName = fileName) IN
    /\ IF writes
       THEN /\ storage' = Some(StringifyAll(SelectSeq(GetAll, Keep)))
            /\ favResult' = "undefined"
       ELSE /\ favResult' = "threw"
            /\ UNCHANGED storage
    /\ favKeys' = IF writes THEN favKeys \ {<<fen, fileName>>} ELSE favKeys
    /\ lastFav' = FavCall("remove", fen, fileName)
    /\ UNCHANGED <<now, notFavorites>>

\* isFavorite(fen, fileName), called by a front end
FavIsFavorite(fen, fileName) ==
    /\ favResult' = IF IsFavorite(fen, fileName) THEN "true" ELSE "false"
    /\ lastFav' = FavCall("isFavorite", fen, fileName)
    /\ UNCHANGED <<storage, now, favKeys, notFavorites>>

(***************************************************************************)
(* The favorites of the board (main.js 529-639): the like button and the   *)
(* Favorites view.                                                         *)
(***************************************************************************)
\* chess.fen(): the string the position was loaded from, and after moves
\* the string of another board
ChessFen(pos) ==
    IF pos.played = <<>> THEN pos.start ELSE Fen6("moved", Turn(pos), "-")

\* new Date(date) of a date that toISOString() has written
DateValue(date) == CHOOSE t \in 0..MaxNow : DateOf(t) = date

\* favorites.sort((a, b) => new Date(b.date) - new Date(a.date)): the
\* newest first, favorites of one date in the order they had
RECURSIVE SortByDate(_)
SortByDate(list) ==
    IF list = <<>> THEN <<>>
    ELSE LET newest == MinOf({i \in 1..Len(list) : \A j \in 1..Len(list) :
                          DateValue(list[j].date) <= DateValue(list[i].date)})
             others == [i \in 1..(Len(list) - 1) |->
                          IF i < newest THEN list[i] ELSE list[i + 1]]
         IN <<list[newest]>> \o SortByDate(others)

\* favorites.map(f => f.fen).join('\n'), as the sequence of its lines
FenStrings(favorites) == [i \in 1..Len(favorites) |-> favorites[i].fen]

\* loadAllFavorites()
LoadAllFavorites ==
    LET favorites == SortByDate(GetAll) IN
    /\ IF favorites = <<>>
       THEN UNCHANGED <<positionVars, loadedFileName, fenList, rawList,
                        engineSide>>
       ELSE /\ LoadFenList(FenStrings(favorites))
            /\ loadedFileName' = "Favorites"
    /\ mark' = Snapshot
    /\ lastAct' = Act("loadAllFavorites")
    /\ UNCHANGED <<favVars, reloadTimers>>

\* likeCurrentPosition() that arms the reload of the Favorites view before
\* it calls remove()
LikeCurrentPositionArmsFirst(tick, writes) ==
    IF loadedFileName = NoFile
    THEN UNCHANGED vars
    ELSE IF loadedFileName = "Favorites"
    THEN LET currentFen == ChessFen(chess)
             favorites == GetAll
             found == {i \in 1..Len(favorites) :
                          favorites[i].fen = currentFen} IN
         IF found # {}
         THEN LET favToRemove == favorites[MinOf(found)] IN
              /\ FavRemove(favToRemove.fen, favToRemove.fileName, writes)
              /\ reloadTimers' = Append(reloadTimers, currentFenIndex)
         ELSE UNCHANGED vars
    ELSE IF IsFavorite(initialFen, loadedFileName)
    THEN FavRemove(initialFen, loadedFileName, writes) /\ UNCHANGED reloadTimers
    ELSE FavAdd(initialFen, loadedFileName, tick, writes)
         /\ UNCHANGED reloadTimers

\* likeCurrentPosition(); a refused write throws in remove() or add() and
\* is caught at the end of the handler, which then shows the error
LikeCurrentPosition(tick, writes) ==
    IF loadedFileName = NoFile
    THEN UNCHANGED vars
    ELSE IF loadedFileName = "Favorites"
    THEN LET currentFen == ChessFen(chess)
             favorites == GetAll
             found == {i \in 1..Len(favorites) :
                          favorites[i].fen = currentFen} IN
         IF found # {}
         THEN LET favToRemove == favorites[MinOf(found)] IN
              /\ FavRemove(favToRemove.fen, favToRemove.fileName, writes)
              /\ reloadTimers' = IF writes
                                 THEN Append(reloadTimers, currentFenIndex)
                                 ELSE reloadTimers
         ELSE UNCHANGED vars
    ELSE IF IsFavorite(initialFen, loadedFileName)
    THEN FavRemove(initialFen, loadedFileName, writes) /\ UNCHANGED reloadTimers
    ELSE FavAdd(initialFen, loadedFileName, tick, writes)
         /\ UNCHANGED reloadTimers

\* the setTimeout callback of likeCurrentPosition(): the Favorites view is
\* loaded again and the position under the saved cursor is shown
ReloadFavorites ==
    LET currentIndex == Head(reloadTimers)
        updatedFavorites == SortByDate(GetAll)
        kept == KeptLines(FenStrings(updatedFavorites))
        list == [i \in 1..Len(kept) |-> NormalizeFen(kept[i])]
        newIndex == IF currentIndex < Len(list) - 1 THEN currentIndex
                    ELSE Len(list) - 1
        hits == {i \in 0..(Len(list) - 1) : EntryAccepted(list, i)}
    IN
    /\ reloadTimers # <<>>
    /\ reloadTimers' = Tail(reloadTimers)
    /\ IF updatedFavorites = <<>>
       THEN /\ fenList' = <<>>
            /\ rawList' = <<>>
            /\ loadedFileName' = NoFile
            /\ LoadPositionCall(<<>>, DEFAULT_FEN)
       ELSE /\ fenList' = list
            /\ rawList' = kept
            /\ loadedFileName' = "Favorites"
            /\ IF EntryAccepted(list, newIndex)
               THEN LoadPositionAccepted(list, NormalizeFen(list[newIndex + 1]))
               ELSE IF hits # {}
               THEN /\ initialFen' = NormalizeFen(list[MinOf(hits) + 1])
                    /\ chess' = Position(initialFen', <<>>)
                    /\ currentFenIndex' = newIndex
                    /\ moveHistory' = <<>>
                    /\ currentMoveIndex' = -1
                    /\ moveButtons' = UpdateMoveButtons(-1, <<>>)
                    /\ IF isAnalysisActive
                       THEN isAnalysisActive' = FALSE /\ Stop
                       ELSE UNCHANGED <<isAnalysisActive, engineSide>>
               ELSE /\ currentFenIndex' = newIndex
                    /\ UNCHANGED <<chess, initialFen, moveHistory,
                                   currentMoveIndex, moveButtons,
                                   isAnalysisActive, engineSide>>
    /\ mark' = Snapshot
    /\ lastAct' = Act("reloadFavorites")
    /\ UNCHANGED favVars

(***************************************************************************)
(* Spec: the program from construction on. The front ends call analyze()   *)
(* and stop() at any time, also while init() is pending (mobile.js wires   *)
(* the board before awaiting init()).                                      *)
(***************************************************************************)
\* the environment events of the behaviour so far
Events == calls + stops + faults + printed

Next ==
    \/ InitCall
    \/ InitCallThrows
    \/ \E fen \in Fens : Events < StartEvents /\ Analyze(fen) /\ UNCHANGED boardVars
    \/ Events < StartEvents /\ Stop /\ UNCHANGED boardVars
    \/ OnWorkerMessage
    \/ ResolveTimerFires
    \/ Events < StartEvents /\ WorkerOnError
    \/ ProxyInit
    \/ ProxyInitFails
    \/ ProxyCommand
    \/ ProxyStop
    \/ ProxyOnEngineMessage
    \/ Events < StartEvents /\ ProxyOnEngineError
    \/ EngineUciOk
    \/ EngineUciHangs
    \/ EngineCommand
    \/ \E line \in ProgressLines : Events < StartEvents /\ EngineInfo(line)
    \/ EngineBestmove

Spec == Init /\ [][Next]_vars

(***************************************************************************)
(* SessionSpec: the program once init() has resolved and the handshake     *)
(* traffic has drained, the state in which main.js wires its controls.     *)
(***************************************************************************)
SessionInit ==
    /\ worker = "proxy"
    /\ isAnalyzing = FALSE
    /\ analysisCallback = 0
    /\ currentAnalysis = EmptyAnalysis
    /\ initPromise = "resolved"
    /\ checkReady = FALSE
    /\ resolveTimer = FALSE
    /\ engineWorker = "engine"
    /\ messageQueue = <<>>
    /\ isReady = TRUE
    /\ engSearch = 0
    /\ printed = 0
    /\ engHung = FALSE
    /\ toProxy = <<>>
    /\ toEngine = <<>>
    /\ fromEngine = <<>>
    /\ toMain = <<>>
    /\ calls = 0
    /\ stops = 0
    /\ faults = 0
    /\ invoked = <<>>
    /\ slotGen = <<>>
    /\ ackSeen = TRUE
    /\ proxyLog = SetupCommands
    /\ engineLog = <<CmdUci>> \o SetupCommands
    /\ lastCall = "none"
    /\ lastMsg = NoMsg
    /\ doneGens = {}
    /\ quick = {}
    /\ flushed = <<>>
    /\ BoardInit

SessionNext ==
    \/ \E fen \in Fens : Events < MaxEvents /\ Analyze(fen) /\ UNCHANGED boardVars
    \/ Events < MaxEvents /\ Stop /\ UNCHANGED boardVars
    \/ OnWorkerMessage
    \/ ProxyCommand
    \/ ProxyStop
    \/ ProxyOnEngineMessage
    \/ Events < MaxEvents /\ ProxyOnEngineError
    \/ EngineCommand
    \/ \E line \in ProgressLines : Events < MaxEvents /\ EngineInfo(line)
    \/ EngineBestmove

SessionSpec == SessionInit /\ [][SessionNext]_vars

(***************************************************************************)
(* FairSpec: Spec with its message handlers, its timer and the engine's    *)
(* command loop scheduled: a posted message is handled, an armed timer     *)
(* fires, the engine reads the command it is sent and ends its search.     *)
(* Calls of the front end and faults are not forced.                       *)
(***************************************************************************)
FairSpec ==
    /\ Spec
    /\ WF_vars(OnWorkerMessage)
    /\ WF_vars(ResolveTimerFires)
    /\ WF_vars(ProxyInit \/ ProxyInitFails)
    /\ WF_vars(ProxyCommand)
    /\ WF_vars(ProxyStop)
    /\ WF_vars(ProxyOnEngineMessage)
    /\ WF_vars(EngineUciOk \/ EngineUciHangs)
    /\ WF_vars(EngineCommand)
    /\ WF_vars(EngineBestmove)

(***************************************************************************)
(* ReducerSpec: the main thread alone, fed with messages in any order.     *)
(* The worker posts any line at any time; the searches are not tracked     *)
(* (every message carries search 0).                                       *)
(***************************************************************************)
ReducerLines ==
    {L.rank1, L.rank1mate, L.rank2, L.rank3, L.nopv, L.currmove, L.bestmove,
     L.readyok}

ReducerMessages == {Output(line, 0) : line \in ReducerLines} \cup {Error(L.fault)}

\* the worker posts a message while the main thread has none to handle
WorkerPosts(msg) ==
    /\ toMain = <<>>
    /\ toMain' = <<msg>>
    /\ printed' = IF msg.type = "output" THEN printed + 1 ELSE printed
    /\ faults' = IF msg.type = "error" THEN faults + 1 ELSE faults
    /\ UNCHANGED <<mainVars, proxyVars, engSearch, engHung, toProxy, toEngine,
                   fromEngine, mainHist, proxyLog, engineLog, flushed,
                   boardVars>>

ReducerNext ==
    \/ \E fen \in Fens : Events < ReducerEvents /\ Analyze(fen) /\ UNCHANGED boardVars
    \/ Events < ReducerEvents /\ Stop /\ UNCHANGED boardVars
    \/ \E msg \in ReducerMessages : Events < ReducerEvents /\ WorkerPosts(msg)
    \/ OnWorkerMessage

ReducerSpec == SessionInit /\ [][ReducerNext]_vars

(***************************************************************************)
(* HistorySpec: the board, its move history and the analysis switch of     *)
(* main.js, the engine side receiving the calls but not running.           *)
(***************************************************************************)
\* a handler that calls the engine while analysis is active is an event
WithinBudget(bound) == isAnalysisActive => Events < bound

HistoryNext ==
    \/ \E m \in BoardMoves : WithinBudget(BoardEvents) /\ OnMove(m)
    \/ WithinBudget(BoardEvents) /\ GoToPrevMove
    \/ WithinBudget(BoardEvents) /\ GoToNextMove
    \/ WithinBudget(BoardEvents) /\ GoToFirstMove
    \/ WithinBudget(BoardEvents) /\ GoToLastMove
    \/ \E fen \in PositionInputs : WithinBudget(BoardEvents) /\ LoadPosition(fen)
    \/ Events < BoardEvents /\ ToggleAnalysis

HistorySpec == SessionInit /\ [][HistoryNext]_vars

(***************************************************************************)
(* NavigatorSpec: the position list of main.js and the handlers that move  *)
(* its cursor, analysis being switched off.                                *)
(***************************************************************************)
\* the lines a pasted text or a file is made of
RawLines ==
    {<<SP, "A", SP>>, <<"X">>, Fen6("B", "b", "-"), <<"A", SP, "b">>, <<SP>>}

\* a list of an accepted entry, two rejected ones and an accepted one
SkipExample == <<<<"A">>, <<"X">>, <<"A", SP, "b">>, Fen6("B", "b", "-")>>

\* the texts: the empty string, every text of up to MaxLines lines, and
\* the example
Texts ==
    {<< <<>> >>, SkipExample}
        \cup UNION {[1..n -> RawLines] : n \in 1..MaxLines}

\* what parseInt() makes of the position number field
JumpInputs == {Null} \cup {Some(k) : k \in 0..(MaxLines + 2)}

\* the files the user picks: an empty one, one of blank lines, the example
FileTexts == {<< <<>> >>, <<<<SP>>, <<>>>>, SkipExample}

NavigatorNext ==
    \/ \E text \in Texts : Paste(text)
    \/ \E text \in FileTexts : FileRead(text)
    \/ ClearFile
    \/ LoadPrevFen
    \/ LoadNextFen
    \/ \E k \in JumpInputs : JumpToPosition(k)
    \/ \E fen \in PositionInputs : LoadPosition(fen)

NavigatorSpec == SessionInit /\ [][NavigatorNext]_vars

(***************************************************************************)
(* BoardSpec: every handler of the board of main.js together: the moves,   *)
(* the history buttons, the position field, the position list and the      *)
(* analysis switch, the engine side receiving the calls but not running.   *)
(***************************************************************************)
\* the files of BoardSpec: the example, and a file of an accepted line and
\* a rejected one
BoardTexts == {SkipExample, <<<<"A">>, <<"X">>>>}

BoardNext ==
    \/ \E m \in BoardMoves : WithinBudget(BoardEvents) /\ OnMove(m)
    \/ WithinBudget(BoardEvents) /\ GoToPrevMove
    \/ WithinBudget(BoardEvents) /\ GoToNextMove
    \/ WithinBudget(BoardEvents) /\ GoToFirstMove
    \/ WithinBudget(BoardEvents) /\ GoToLastMove
    \/ \E fen \in PositionInputs : WithinBudget(BoardEvents) /\ LoadPosition(fen)
    \/ Events < BoardEvents /\ ToggleAnalysis
    \/ \E text \in BoardTexts : WithinBudget(BoardEvents) /\ FileRead(text)
    \/ WithinBudget(BoardEvents) /\ ClearFile
    \/ WithinBudget(BoardEvents) /\ LoadPrevFen
    \/ WithinBudget(BoardEvents) /\ LoadNextFen
    \/ \E k \in JumpInputs : WithinBudget(BoardEvents) /\ JumpToPosition(k)

BoardSpec == SessionInit /\ [][BoardNext]_vars

(***************************************************************************)
(* FavoritesSpec: FavoritesManager alone, called with any position and     *)
(* file name in any order, the browser accepting or refusing each write.   *)
(***************************************************************************)
FavoritesNext ==
    \/ \E fen \in FavFens, name \in FavLabels, tick \in {0, 1},
          writes \in BOOLEAN :
            /\ now + tick <= MaxNow
            /\ FavAdd(fen, name, tick, writes)
            /\ UNCHANGED reloadTimers
    \/ \E fen \in FavFens, name \in FavLabels, writes \in BOOLEAN :
            FavRemove(fen, name, writes) /\ UNCHANGED reloadTimers
    \/ \E fen \in FavFens, name \in FavLabels :
            FavIsFavorite(fen, name) /\ UNCHANGED reloadTimers

FavoritesSpec == SessionInit /\ [][FavoritesNext]_vars

(***************************************************************************)
(* LikeSpec: the board with a file, the like button and the Favorites      *)
(* view, the browser accepting or refusing each write. The user plays at   *)
(* most one move on a position.                                            *)
(***************************************************************************)
\* the file of LikeSpec: two positions
LikeText == <<<<"A">>, Fen6("B", "b", "-")>>

LikeNext ==
    \/ WithinBudget(LikeEvents) /\ FileRead(LikeText)
    \/ WithinBudget(LikeEvents) /\ LoadNextFen
    \/ \E m \in BoardMoves :
            WithinBudget(LikeEvents) /\ moveHistory = <<>> /\ OnMove(m)
    \/ Events < LikeEvents /\ ToggleAnalysis
    \/ \E tick \in {0, 1}, writes \in BOOLEAN :
            /\ now + tick <= MaxNow
            /\ Len(reloadTimers) < MaxTimers
            /\ LikeCurrentPosition(tick, writes)
    \/ WithinBudget(LikeEvents) /\ LoadAllFavorites
    \/ WithinBudget(LikeEvents) /\ ReloadFavorites

LikeSpec == SessionInit /\ [][LikeNext]_vars

(***************************************************************************)
(* DesktopSpec: the board of main.js and the main thread of the engine     *)
(* together: the user moves, goes back, loads and toggles the analysis     *)
(* while the worker posts a progress line, a bestmove line or an error at  *)
(* any time.                                                               *)
(***************************************************************************)
DesktopNext ==
    \/ \E m \in BoardMoves : WithinBudget(DesktopEvents) /\ OnMove(m)
    \/ WithinBudget(DesktopEvents) /\ GoToPrevMove
    \/ \E fen \in {<<"A">>, <<"X">>} :
            WithinBudget(DesktopEvents) /\ LoadPosition(fen)
    \/ Events < DesktopEvents /\ ToggleAnalysis
    \/ \E msg \in {Output(L.rank1, 0), Output(L.bestmove, 0), Error(L.fault)} :
            Events < DesktopEvents /\ WorkerPosts(msg)
    \/ OnWorkerMessage

DesktopSpec == SessionInit /\ [][DesktopNext]_vars

(***************************************************************************)
(* Properties of the analysis coordinator.                                 *)
(***************************************************************************)
\* the indices of the invocations the step adds
NewInvocations == (Len(invoked) + 1)..Len(invoked')

\* the results (not error results) callback k has been called with
ResultsOf(k) ==
    {i \in 1..Len(invoked) : invoked[i].cb = k /\ invoked[i].result.error = Null}

\* the step handles the first message of toMain, which is of the given type
Handles(type) ==
    toMain # <<>> /\ toMain' = Tail(toMain) /\ Head(toMain).type = type

\* C1: once analyze() has been called again, the callback of an earlier
\* call is never invoked, whatever engine line or error message arrives:
\* every invocation a step makes is of the callback of the latest call.
C1_SupersededCallbackNeverInvoked ==
    [][\A i \in NewInvocations : invoked'[i].cb >= calls']_vars

\* the second analyze() came before the bestmove line of the first search,
\* that line has arrived since, and a callback has been invoked
C1_Witness ==
    /\ 2 \in quick
    /\ 1 \in doneGens
    /\ \E i \in 1..Len(invoked) : invoked[i].trigger = 1

\* C2: the callback of an analyze() that directly followed another
\* analyze(), with no stop(), is called with a result at most once.
C2_SecondCallbackAtMostOnce ==
    \A k \in quick : stops = 0 => Cardinality(ResultsOf(k)) <= 1

\* C3: every result delivered to the callback of call k is triggered by
\* the bestmove line of search k and holds only slots written by progress
\* lines of search k.
C3_OnlyOwnSearchDelivered ==
    \A i \in 1..Len(invoked) :
        invoked[i].result.error = Null =>
            /\ invoked[i].trigger = invoked[i].cb
            /\ invoked[i].sources \subseteq {invoked[i].cb}

\* C4: when the bestmove line of the latest analyze() has arrived and
\* neither stop() nor analyze() was called since, its callback has been
\* called with a result exactly once.
C4_ExactlyOncePerRequest ==
    (lastCall = "analyze" /\ calls \in doneGens) =>
        Cardinality(ResultsOf(calls)) = 1

\* C5: a bestmove line that arrives while a callback is registered and the
\* aggregate is not empty calls the callback once and clears the callback
\* and the aggregate.
C5_BestmoveClears ==
    [][(/\ Handles("output")
        /\ IsBestmoveLine(Head(toMain).data)
        /\ analysisCallback # 0
        /\ Len(currentAnalysis.moves) > 0)
       => /\ Len(invoked') = Len(invoked) + 1
          /\ analysisCallback' = 0
          /\ currentAnalysis' = EmptyAnalysis]_vars

\* C6: from stop() until the next analyze() no callback is registered and
\* no step, whatever message it handles, invokes a callback.
C6_NothingInvokedAfterStop ==
    [][lastCall' = "stop" => (analysisCallback' = 0 /\ invoked' = invoked)]_vars

\* a bestmove line has arrived after a stop() that followed an analyze()
C6_Witness ==
    /\ lastCall = "stop"
    /\ calls >= 1
    /\ lastMsg.type = "output"
    /\ IsBestmoveLine(lastMsg.data)

\* C7: an error message that arrives while a callback is registered calls
\* that callback once, with an error result, and leaves the worker handle,
\* the callback and the aggregate as they were; an analyze() made after an
\* error message still sends its position and go commands.
C7_FaultSurfacedNotFatal ==
    [][/\ (Handles("error") /\ analysisCallback # 0)
            => /\ invoked' = Append(invoked,
                       Invocation(analysisCallback,
                                  ErrorResult(Head(toMain).data), 0, {}))
               /\ worker' = worker
               /\ analysisCallback' = analysisCallback
               /\ currentAnalysis' = currentAnalysis
       /\ (/\ calls' = calls + 1
           /\ \E i \in 1..Len(invoked) : invoked[i].result.error # Null)
          => \E fen \in Fens :
                toProxy' = toProxy \o
                    <<MsgCommand(Command("position fen", fen, calls')),
                      MsgCommand(Command("go depth", AnalysisDepth, calls'))>>
      ]_vars

\* a callback got an error result and the callback of a later analyze()
\* got the result of its own search
C7_Witness ==
    \E i, j \in 1..Len(invoked) :
        /\ i < j
        /\ invoked[i].result.error # Null
        /\ invoked[j].result.error = Null
        /\ invoked[j].cb > invoked[i].cb
        /\ invoked[j].trigger = invoked[j].cb
        /\ invoked[j].result.moves # <<>>

(***************************************************************************)
(* Properties of start-up and of the worker proxy (Spec, FairSpec).        *)
(***************************************************************************)
\* C8: init() always settles: it resolves only after the line uciok has
\* been received, and a pending init() is eventually resolved or rejected.
C8_InitAlwaysSettles ==
    /\ [](initPromise = "resolved" => ackSeen)
    /\ (initPromise = "pending") ~> (initPromise \in {"resolved", "rejected"})

\* the commands of a sequence that the proxy received as type 'command'
RECURSIVE FilterCommands(_)
FilterCommands(cmds) ==
    IF cmds = <<>> THEN <<>>
    ELSE IF Head(cmds) \in {CmdUci, CmdStop} THEN FilterCommands(Tail(cmds))
         ELSE <<Head(cmds)>> \o FilterCommands(Tail(cmds))

\* the commands that have reached the engine or are on their way to it
EngineBound == FilterCommands(engineLog \o toEngine)

IsPrefix(p, q) == Len(p) <= Len(q) /\ \A i \in 1..Len(p) : p[i] = q[i]

\* C9: until the proxy has seen uciok every command it received is in the
\* queue, in order, and none is on its way to the engine; afterwards the
\* commands sent on to the engine are exactly the commands received, in the
\* order received, the flushed ones first; the engine reads "uci" first.
C9_QueueWhileNotReady ==
    /\ ~isReady => (messageQueue = proxyLog /\ EngineBound = <<>>)
    /\ isReady => /\ messageQueue = <<>>
                  /\ EngineBound = proxyLog
                  /\ IsPrefix(flushed, proxyLog)
    /\ engineLog # <<>> => engineLog[1] = CmdUci

\* commands were buffered, flushed at uciok, followed by later commands,
\* and all of them have been read by the engine
C9_Witness ==
    /\ isReady
    /\ Len(flushed) >= 2
    /\ Len(proxyLog) > Len(flushed)
    /\ FilterCommands(engineLog) = proxyLog

(***************************************************************************)
(* Properties of the parser (ReducerSpec).                                 *)
(***************************************************************************)
\* C10: a line whose multipv number is not 1 leaves the depth, score and
\* mate of the aggregate as they were and changes no slot of the move list
\* but the one of its own number.
C10_OtherRanksOnlyFillTheirSlot ==
    [][(/\ Handles("output")
        /\ MultiPvMatches(Head(toMain).data) # {}
        /\ LineMultiPv(Head(toMain).data) # 1)
       => /\ currentAnalysis'.depth = currentAnalysis.depth
          /\ currentAnalysis'.score = currentAnalysis.score
          /\ currentAnalysis'.mate = currentAnalysis.mate
          /\ \A j \in 1..Len(currentAnalysis'.moves) :
                j # LineMultiPv(Head(toMain).data) =>
                    currentAnalysis'.moves[j] =
                        IF j <= Len(currentAnalysis.moves)
                        THEN currentAnalysis.moves[j] ELSE Hole
          /\ Len(currentAnalysis'.moves) >= Len(currentAnalysis.moves)]_vars

\* the lines of ranks 1 and 2 arrived, the line of rank 3 arrived last and
\* wrote its slot, and the depth and score are still those of rank 1
C10_Witness ==
    /\ lastMsg.type = "output"
    /\ lastMsg.data = L.rank3
    /\ currentAnalysis.depth = LineDepth(L.rank1)
    /\ currentAnalysis.score = LineScore(L.rank1)
    /\ Len(currentAnalysis.moves) = 3
    /\ currentAnalysis.moves[2] = SlotOf(L.rank2)
    /\ currentAnalysis.moves[3] = SlotOf(L.rank3)

(***************************************************************************)
(* Properties of the protocol parser.                                      *)
(***************************************************************************)
\* the positions of the PV marker, the word pv, in the line
PvMarkers(line) == {i \in 1..Len(line) : line[i] = W.pv}

\* the move tokens that follow the PV marker
PvMoves(line) ==
    IF PvMarkers(line) = {} THEN <<>>
    ELSE FilterUci(SubSeq(line, MinOf(PvMarkers(line)) + 1, Len(line)))

\* C11: a line that is not a bestmove line and is not a progress line, or
\* has no numeric depth, or no PV, or no move token in its PV, leaves the
\* aggregate and the registered callback as they are and invokes nothing.
C11_IrrelevantLineChangesNothing ==
    [][(/\ Handles("output")
        /\ ~IsBestmoveLine(Head(toMain).data)
        /\ \/ ~IsInfoLine(Head(toMain).data)
           \/ DepthMatches(Head(toMain).data) = {}
           \/ PvMarkers(Head(toMain).data) = {}
           \/ PvMoves(Head(toMain).data) = <<>>)
       => /\ currentAnalysis' = currentAnalysis
          /\ analysisCallback' = analysisCallback
          /\ invoked' = invoked]_vars

(***************************************************************************)
(* Properties of position normalization and of the move history.           *)
(***************************************************************************)
\* the default of each of the six fields but the first
DefaultFields == <<<<>>, <<"w">>, <<"-">>, <<"-">>, <<"0">>, <<"1">>>>

\* the fields given, followed by the defaults of the fields that are missing
PaddedToSix(fields) == fields \o SubSeq(DefaultFields, Len(fields) + 1, 6)

\* C12: an entry of the list made from a line of one to five fields has
\* exactly six fields: the fields of the line, then the defaults of the
\* missing ones.
C12_NormalizedToSixFields ==
    \A i \in 1..Len(fenList) :
        Len(Split(rawList[i])) \in 1..5 =>
            /\ Len(Split(fenList[i])) = 6
            /\ Split(fenList[i]) = PaddedToSix(Split(rawList[i]))

\* the handler that runs is onMove and the rules engine accepts the move m
AppliesMove(m) == lastAct'.op = "onMove" /\ chess' = MakeMove(chess, m)

\* C13: a legal move applied at cursor i of a history of n moves leaves the
\* first i+1 moves followed by the new move and the cursor at i+1; at
\* i = n-1 nothing is removed.
C13_ApplyDiscardsRedoTail ==
    [][\A m \in BoardMoves : AppliesMove(m) =>
        /\ moveHistory' =
             Append(SubSeq(moveHistory, 1, currentMoveIndex + 1), m)
        /\ currentMoveIndex' = currentMoveIndex + 1
        /\ currentMoveIndex = Len(moveHistory) - 1 =>
              moveHistory' = Append(moveHistory, m)]_vars

\* a move was applied with two moves after the cursor, which are gone
C13_Witness ==
    /\ lastAct.op = "onMove"
    /\ lastAct.len = 2
    /\ lastAct.idx = -1
    /\ currentMoveIndex = 0
    /\ Len(moveHistory) = 1

\* C14: while only goToPrevMove() and goToNextMove() run, the moves of the
\* history stay as they are, and the position is the one before the
\* sequence whenever the cursor is where it was; goToNextMove() right after
\* a goToPrevMove() that undid a move restores cursor, moves and position.
C14_UndoRedoRoundTrip ==
    /\ [](/\ moveHistory = mark.history
          /\ currentMoveIndex = mark.idx => chess = mark.pos)
    /\ [][(/\ lastAct.op = "goToPrevMove"
           /\ lastAct.idx >= 0
           /\ lastAct'.op = "goToNextMove")
          => /\ currentMoveIndex' = lastAct.idx
             /\ chess' = lastAct.pos
             /\ Len(moveHistory') = lastAct.len
             /\ moveHistory' = moveHistory]_vars

\* two moves were undone and redone: the cursor and the position are back
C14_Witness ==
    /\ lastAct.op = "goToNextMove"
    /\ lastAct.idx = 0
    /\ Len(mark.history) = 2
    /\ mark.idx = 1
    /\ currentMoveIndex = 1
    /\ chess = mark.pos

\* the state of the board a move handler can change
HistoryState == <<chess, moveHistory, currentMoveIndex, initialFen>>

\* C15: the cursor of the history is between -1 and length-1; goToPrevMove()
\* changes nothing unless cursor >= 0, goToNextMove() nothing unless
\* cursor < length-1; the prev and first buttons are enabled exactly when
\* cursor >= 0, the next and last buttons exactly when cursor < length-1.
C15_CursorAndButtons ==
    /\ [](/\ -1 <= currentMoveIndex
          /\ currentMoveIndex <= Len(moveHistory) - 1
          /\ ~moveButtons.prev = (currentMoveIndex >= 0)
          /\ ~moveButtons.first = (currentMoveIndex >= 0)
          /\ ~moveButtons.next = (currentMoveIndex < Len(moveHistory) - 1)
          /\ ~moveButtons.last = (currentMoveIndex < Len(moveHistory) - 1))
    /\ [][/\ (lastAct'.op = "goToPrevMove" /\ ~(currentMoveIndex >= 0))
               => UNCHANGED HistoryState
          /\ (/\ lastAct'.op = "goToNextMove"
              /\ ~(currentMoveIndex < Len(moveHistory) - 1))
               => UNCHANGED HistoryState]_vars

\* goToNextMove() was called at the end of a history of two moves and did
\* nothing: the cursor is at length-1, prev is enabled and next is not
C15_Witness ==
    /\ lastAct.op = "goToNextMove"
    /\ lastAct.idx = 1
    /\ lastAct.len = 2
    /\ currentMoveIndex = 1
    /\ ~moveButtons.prev
    /\ moveButtons.next

\* C16: goToFirstMove() leaves the cursor at -1, the board on the starting
\* position and the moves of the history as they were.
C16_JumpToStartKeepsHistory ==
    [][(lastAct'.op = "goToFirstMove")
       => /\ currentMoveIndex' = -1
          /\ chess' = Position(initialFen, <<>>)
          /\ moveHistory' = moveHistory]_vars

(***************************************************************************)
(* Properties of the position list.                                        *)
(***************************************************************************)
\* the list loadFenList makes of the text
ListOf(text) ==
    [i \in 1..Len(KeptLines(text)) |-> NormalizeFen(KeptLines(text)[i])]

\* C17: loading a text replaces the list by the trimmed, non-blank,
\* normalized lines of the text and sets the cursor to 0 when that list has
\* an entry and to -1 when it has none.
C17_LoadReplacesList ==
    [][\A text \in Texts :
        (lastAct'.op = "loadFenList" /\ (Paste(text) \/ FileRead(text))) =>
        /\ fenList' = ListOf(text)
        /\ currentFenIndex' = IF ListOf(text) = <<>> THEN -1 ELSE 0]_vars

\* C18: the cursor of the list is between -1 and length-1.
C18_ListCursorInRange ==
    /\ -1 <= currentFenIndex
    /\ currentFenIndex <= Len(fenList) - 1

\* C19: loadNextFen() at cursor i < length-1 whose entry i+1 is loadable
\* leaves the cursor at i+1, loadPrevFen() at cursor i > 0 whose entry i-1
\* is loadable leaves it at i-1.
C19_StepMovesCursorByOne ==
    [][/\ (/\ lastAct'.op = "loadNextFen"
           /\ currentFenIndex < Len(fenList) - 1
           /\ EntryAccepted(fenList, currentFenIndex + 1))
            => currentFenIndex' = currentFenIndex + 1
       /\ (/\ lastAct'.op = "loadPrevFen"
           /\ currentFenIndex > 0
           /\ EntryAccepted(fenList, currentFenIndex - 1))
            => currentFenIndex' = currentFenIndex - 1]_vars

\* the entries of the list are pairwise distinct
PairwiseDistinct(list) ==
    \A i, j \in 1..Len(list) : list[i] = list[j] => i = j

\* the indices of the entries the rules engine accepts
AcceptedIndices(list) ==
    {j \in 0..(Len(list) - 1) : ChessAccepts(list[j + 1])}

\* C20: in a list of pairwise distinct entries loadNextFen() lands on the
\* smallest accepted index above the cursor and loadPrevFen() on the
\* largest accepted index below it, and the board shows that entry.
C20_SkipsRejectedEntries ==
    [][PairwiseDistinct(fenList) =>
        /\ \A j \in AcceptedIndices(fenList) :
             (/\ lastAct'.op = "loadNextFen"
              /\ j > currentFenIndex
              /\ \A k \in AcceptedIndices(fenList) : k > currentFenIndex => j <= k)
               => /\ currentFenIndex' = j
                  /\ chess' = Position(fenList[j + 1], <<>>)
        /\ \A j \in AcceptedIndices(fenList) :
             (/\ lastAct'.op = "loadPrevFen"
              /\ j < currentFenIndex
              /\ \A k \in AcceptedIndices(fenList) : k < currentFenIndex => k <= j)
               => /\ currentFenIndex' = j
                  /\ chess' = Position(fenList[j + 1], <<>>)]_vars

\* loadNextFen() at index 0 of the list of an accepted entry, two rejected
\* ones and an accepted one has landed on index 3
C20_Witness ==
    /\ lastAct.op = "loadNextFen"
    /\ lastAct.fenIdx = 0
    /\ fenList = ListOf(SkipExample)
    /\ PairwiseDistinct(fenList)
    /\ AcceptedIndices(fenList) = {0, 3}
    /\ currentFenIndex = 3
    /\ chess = Position(fenList[4], <<>>)

(***************************************************************************)
(* Properties of jumpToPosition, loadPosition and onMove.                  *)
(***************************************************************************)
\* the position number is not a number or not one of 1..length
OutOfList(k) == k = Null \/ k[1] \notin 1..Len(fenList)

\* the position number is the one of the entry the cursor is on
OnCursor(k) == k # Null /\ k[1] - 1 = currentFenIndex

\* C21: jumpToPosition(k) with k outside 1..length, k not a number or an
\* empty list changes neither the cursor, the list, the position, the move
\* history nor the analysis flag; neither does it when k-1 is the cursor.
C21_InvalidJumpChangesNothing ==
    [][\A k \in JumpInputs :
        (/\ lastAct'.op = "jumpToPosition"
         /\ JumpToPosition(k)
         /\ (OutOfList(k) \/ OnCursor(k)))
          => UNCHANGED <<currentFenIndex, fenList, chess, moveHistory,
                         currentMoveIndex, isAnalysisActive>>]_vars

\* jumpToPosition() has run on a loaded list with a move played and
\* analysis active, and the move is still there
C21_Witness ==
    /\ lastAct.op = "jumpToPosition"
    /\ Len(fenList) > 1
    /\ lastAct.fenIdx = currentFenIndex
    /\ lastAct.len = 1
    /\ Len(moveHistory) = 1
    /\ isAnalysisActive

\* the accepted indices of the list above index t
AcceptedAfter(t) == {j \in AcceptedIndices(fenList) : j > t}

\* C22: when the target of jumpToPosition(k) is rejected, the position
\* loaded is the entry of the smallest accepted index above k-1, and no
\* other; when there is none the board position is unchanged.
C22_JumpSkipsForwardOnly ==
    [][\A k \in JumpInputs :
        (/\ lastAct'.op = "jumpToPosition"
         /\ JumpToPosition(k)
         /\ ~OutOfList(k)
         /\ ~OnCursor(k)
         /\ ~EntryAccepted(fenList, k[1] - 1))
          => IF AcceptedAfter(k[1] - 1) = {}
             THEN chess' = chess
             ELSE chess' =
                    Position(fenList[MinOf(AcceptedAfter(k[1] - 1)) + 1],
                             <<>>)]_vars

\* on the list of the example with the cursor on the last entry and a move
\* played, jumpToPosition() to a rejected entry has loaded the last entry
\* again
C22_Witness ==
    /\ lastAct.op = "jumpToPosition"
    /\ fenList = ListOf(SkipExample)
    /\ lastAct.fenIdx = 3
    /\ lastAct.len = 1
    /\ currentFenIndex = 3
    /\ moveHistory = <<>>
    /\ chess = Position(fenList[4], <<>>)

\* loadPosition(fen) returns true
LoadSucceeds(fen) == ChessAccepts(NormalizeFen(fen))

\* the entries of the list that are the string
Occurrences(list, fen) == {i \in 0..(Len(list) - 1) : list[i + 1] = fen}

\* C23: a successful loadPosition(p) leaves the board on normalized p with
\* no move played, the move history empty with cursor -1, the list cursor
\* on an index of p in the list or at -1 when there is none, the analysis
\* switch off and no callback registered.
C23_LoadResetsEverything ==
    [][\A fen \in PositionInputs :
        (lastAct'.op = "loadPosition" /\ LoadPosition(fen) /\ LoadSucceeds(fen))
          => /\ Split(chess'.start) = PaddedToSix(Split(fen))
             /\ chess'.played = <<>>
             /\ moveHistory' = <<>>
             /\ currentMoveIndex' = -1
             /\ IF Occurrences(fenList, chess'.start) = {}
                THEN currentFenIndex' = -1
                ELSE currentFenIndex' \in Occurrences(fenList, chess'.start)
             /\ ~isAnalysisActive'
             /\ analysisCallback' = 0]_vars

\* with the list of the example loaded, analysis active and a move played
\* and analysed, the last entry of the list was entered in the position
\* field: the cursor is on it and analysis is off
C23_Witness ==
    /\ lastAct.op = "loadPosition"
    /\ lastAct.active
    /\ lastAct.len = 1
    /\ lastAct.fenIdx = 0
    /\ fenList = ListOf(SkipExample)
    /\ chess = Position(Fen6("B", "b", "-"), <<>>)
    /\ currentFenIndex = 3
    /\ moveHistory = <<>>
    /\ ~isAnalysisActive
    /\ analysisCallback = 0

\* C24: when the rules engine rejects the string of loadPosition(p), the
\* board position, the recorded starting position, the move history, its
\* cursor and the analysis switch are unchanged.
C24_RejectedLoadChangesNothing ==
    [][\A fen \in PositionInputs :
        (lastAct'.op = "loadPosition" /\ LoadPosition(fen) /\ ~LoadSucceeds(fen))
          => UNCHANGED <<chess, initialFen, moveHistory, currentMoveIndex,
                         isAnalysisActive>>]_vars

\* a string was entered in the position field with a move played and
\* analysis active, and the move and the analysis are still there
C24_Witness ==
    /\ lastAct.op = "loadPosition"
    /\ lastAct.active
    /\ lastAct.len = 1
    /\ lastAct.pos = chess
    /\ Len(moveHistory) = 1
    /\ currentMoveIndex = 0
    /\ isAnalysisActive

\* C25: when the rules engine rejects the move of onMove(), the board
\* position, the move history, its cursor, the list cursor and the state
\* of the analysis are unchanged.
C25_RejectedMoveChangesNothing ==
    [][\A m \in BoardMoves :
        (lastAct'.op = "onMove" /\ OnMove(m) /\ m \notin LegalMoves(chess))
          => UNCHANGED <<chess, moveHistory, currentMoveIndex,
                         currentFenIndex, isAnalysisActive, isAnalyzing,
                         analysisCallback, calls, stops>>]_vars

\* a move was tried with one move played and analysis active, and the
\* position and the history are as before
C25_Witness ==
    /\ lastAct.op = "onMove"
    /\ lastAct.active
    /\ lastAct.len = 1
    /\ lastAct.idx = 0
    /\ lastAct.pos = chess
    /\ Len(moveHistory) = 1
    /\ currentMoveIndex = 0
    /\ isAnalysisActive

(***************************************************************************)
(* Properties of the analysis switch.                                      *)
(***************************************************************************)
\* the step calls analyze() for the position, and the callback registered
\* after it is the one of that call
AnalyzeCalledFor(pos) ==
    /\ calls' = calls + 1
    /\ analysisCallback' = calls'
    /\ toProxy' =
         toProxy \o SendCommands(worker, AnalyzeCommands(FenOf(pos), calls'))

\* C26: after a move accepted while analysis is active, analyze() has been
\* called for the position after the move and the registered callback is
\* the one of that call.
C26_MoveReanalysed ==
    [][\A m \in BoardMoves :
        (/\ lastAct'.op = "onMove"
         /\ OnMove(m)
         /\ m \in LegalMoves(chess)
         /\ isAnalysisActive)
          => AnalyzeCalledFor(chess')]_vars

\* C27 as claimed: toggleAnalysis() flips the flag; turning analysis on
\* calls analyze() for the current position, whatever the position;
\* turning it off calls stop() and leaves no callback registered.
C27_ToggleAnalysesEveryPosition ==
    [][(lastAct'.op = "toggleAnalysis" /\ ToggleAnalysis) =>
        /\ isAnalysisActive' = ~isAnalysisActive
        /\ isAnalysisActive' => AnalyzeCalledFor(chess)
        /\ ~isAnalysisActive' => (stops' = stops + 1 /\ analysisCallback' = 0)]_vars

\* C27 as amended: toggleAnalysis() flips the flag; turning analysis on
\* calls analyze() for the current position unless the game is over in
\* it, and then calls nothing; turning it off calls stop() and leaves no
\* callback registered.
C27_ToggleAnalysesUnlessGameOver ==
    [][(lastAct'.op = "toggleAnalysis" /\ ToggleAnalysis) =>
        /\ isAnalysisActive' = ~isAnalysisActive
        /\ isAnalysisActive' =>
              IF IsGameOver(chess)
              THEN UNCHANGED <<calls, stops, analysisCallback, toProxy>>
              ELSE AnalyzeCalledFor(chess)
        /\ ~isAnalysisActive' => (stops' = stops + 1 /\ analysisCallback' = 0)]_vars

\* analysis was switched on, off and, a move played, on again: the
\* callback registered is the one of the second call of analyze()
C27_Witness ==
    /\ lastAct.op = "toggleAnalysis"
    /\ ~lastAct.active
    /\ isAnalysisActive
    /\ Len(moveHistory) = 1
    /\ calls = 2
    /\ stops = 1
    /\ analysisCallback = 2

\* the handlers of the move history and of a move on the board
HistoryOps ==
    {"goToPrevMove", "goToNextMove", "goToFirstMove", "goToLastMove", "onMove"}

\* C28: goToPrevMove(), goToNextMove(), goToFirstMove(), goToLastMove()
\* and onMove() leave the analysis switch as it is: it goes from on to off
\* only in toggleAnalysis() and in the handlers that load a position.
C28_HistoryKeepsAnalysisFlag ==
    [][lastAct'.op \in HistoryOps => isAnalysisActive' = isAnalysisActive]_vars

(***************************************************************************)
(* Properties of the favorites.                                            *)
(***************************************************************************)
\* the key of a favorite, and the keys of the stored ones
KeyOf(f) == <<f.fen, f.fileName>>
StoredKeys == {KeyOf(GetAll[i]) : i \in 1..Len(GetAll)}

\* the key the last call was made with
CalledKey == <<lastFav.fen, lastFav.fileName>>

\* C29: the store holds at most one favorite per key (position, file
\* name), and the keys stored are the keys added and not removed since;
\* add(), when the browser accepts the write, returns true and appends a
\* favorite of the key exactly when the key is not stored, and returns
\* false and leaves the store as it is otherwise; isFavorite() is true
\* exactly when the key is stored.
C29_OneFavoritePerKey ==
    /\ [](/\ \A i, j \in 1..Len(GetAll) :
               KeyOf(GetAll[i]) = KeyOf(GetAll[j]) => i = j
          /\ StoredKeys = favKeys)
    /\ [][(lastFav'.op = "add" /\ favResult' # "threw")
            => /\ favResult' = "true" <=> CalledKey' \notin favKeys
               /\ favResult' = "true" =>
                     /\ Len(GetAll') = Len(GetAll) + 1
                     /\ SubSeq(GetAll', 1, Len(GetAll)) = GetAll
                     /\ KeyOf(GetAll'[Len(GetAll')]) = CalledKey'
               /\ favResult' # "true" =>
                     (favResult' = "false" /\ storage' = storage)]_vars
    /\ [][lastFav'.op = "isFavorite"
            => (favResult' = "true" <=> CalledKey' \in favKeys)]_vars

\* a position is stored under both file names, and add() of one of the two
\* keys has returned false
C29_Witness ==
    /\ lastFav.op = "add"
    /\ favResult = "false"
    /\ Len(GetAll) = 2
    /\ GetAll[1].fen = GetAll[2].fen
    /\ GetAll[1].fileName # GetAll[2].fileName
    /\ CalledKey = KeyOf(GetAll[1])

\* the favorites of another key than the one of the call
OtherKeys(list, key) == SelectSeq(list, LAMBDA f : KeyOf(f) # key)

\* C30: remove(), when the browser accepts the write, leaves the favorites
\* of every other key, those of the same position under another file name
\* included, in the order they had, and none of the key; the collection is
\* as it was when the key was not stored.
C30_RemoveOnlyTheKey ==
    [][(lastFav'.op = "remove" /\ favResult' # "threw")
        => /\ GetAll' = OtherKeys(GetAll, CalledKey')
           /\ CalledKey' \notin StoredKeys => GetAll' = GetAll]_vars

\* of three favorites, two of them of one position, remove() has taken
\* the second out: the first, of the same position under the other file
\* name, and the third are left in their order
C30_Witness ==
    /\ lastFav.op = "remove"
    /\ lastFav.found
    /\ favResult = "undefined"
    /\ CalledKey \notin StoredKeys
    /\ Len(GetAll) = 2
    /\ GetAll[1].fen = lastFav.fen
    /\ GetAll[1].fileName # lastFav.fileName
    /\ GetAll[1].date = DateOf(0)
    /\ GetAll[2].date = DateOf(2)

(***************************************************************************)
(* Properties of the like button.                                          *)
(***************************************************************************)
\* likeCurrentPosition() reaches save(): a file or the Favorites view is
\* loaded, and in the view the position shown is a stored favorite
SaveAttempted ==
    /\ loadedFileName # NoFile
    /\ loadedFileName = "Favorites" =>
          \E i \in 1..Len(GetAll) : GetAll[i].fen = ChessFen(chess)

\* C31: when the browser refuses the write of the favorites, add() and
\* remove() throw to likeCurrentPosition(), the stored collection is the
\* one stored before, and position, history, list, pending reload and
\* analysis of the board are what they were.
C31_RefusedWriteChangesNothing ==
    [][\A tick \in {0, 1} :
          (SaveAttempted /\ LikeCurrentPosition(tick, FALSE)) =>
              /\ favResult' = "threw"
              /\ storage' = storage
              /\ GetAll' = GetAll
              /\ UNCHANGED <<positionVars, loadedFileName, fenList,
                             reloadTimers, engineSide>>]_vars

\* remove() has thrown in the Favorites view while the analysis is on and
\* favorites are stored
C31_Witness ==
    /\ favResult = "threw"
    /\ lastFav.op = "remove"
    /\ loadedFileName = "Favorites"
    /\ isAnalysisActive
    /\ Len(GetAll) = 2
    /\ reloadTimers = <<>>

(***************************************************************************)
(* Properties of the aggregate and of the results.                         *)
(***************************************************************************)
\* the PV rank of the progress lines that write the entry; the entries of
\* two lines of ReducerLines differ
RankOf(entry) ==
    LineMultiPv(CHOOSE line \in ReducerLines :
                    IsProgressUpdate(line) /\ SlotOf(line) = entry)

\* the results delivered so far
Delivered == {i \in 1..Len(invoked) : invoked[i].result.error = Null}

\* C32: the move list of every result delivered to a callback has no
\* empty slot, its entries are in increasing order of the PV rank of the
\* lines that reported them, and it has at most 3 entries.
C32_ResultMovesOrderedByRank ==
    \A i \in Delivered :
        LET moves == invoked[i].result.moves IN
        /\ \A k \in 1..Len(moves) : moves[k] # Hole
        /\ \A k \in 1..Len(moves) : \A j \in 1..(k - 1) :
              RankOf(moves[j]) < RankOf(moves[k])
        /\ Len(moves) <= 3

\* a result with the moves of rank 1 and rank 3, rank 2 never reported
C32_Witness ==
    \E i \in Delivered :
        /\ Len(invoked[i].result.moves) = 2
        /\ RankOf(invoked[i].result.moves[1]) = 1
        /\ RankOf(invoked[i].result.moves[2]) = 3
        /\ currentAnalysis.moves[2] = Hole

\* a valid progress line: an info line with a numeric depth and a PV of at
\* least one move
ValidProgress(line) ==
    /\ IsInfoLine(line)
    /\ DepthMatches(line) # {}
    /\ PvMoves(line) # <<>>

\* the slot j of the move list, empty when the list is shorter
SlotAt(moves, j) == IF j <= Len(moves) THEN moves[j] ELSE Hole

\* the aggregate after a valid progress line: the slot of the rank of the
\* line holds its first move, score, mate and moves, and a line of rank 1
\* sets depth, score and mate
ReducedBy(agg, next, line) ==
    /\ \A j \in 1..Len(next.moves) :
          next.moves[j] =
              IF j = LineMultiPv(line)
              THEN [move |-> PvMoves(line)[1], score |-> LineScore(line),
                    mate |-> LineMate(line), line |-> PvMoves(line)]
              ELSE SlotAt(agg.moves, j)
    /\ Len(next.moves) >= Len(agg.moves)
    /\ Len(next.moves) >= LineMultiPv(line)
    /\ IF LineMultiPv(line) = 1
       THEN /\ next.depth = LineDepth(line)
            /\ next.score = LineScore(line)
            /\ next.mate = LineMate(line)
       ELSE /\ next.depth = agg.depth
            /\ next.score = agg.score
            /\ next.mate = agg.mate

\* C33: the aggregate is a reducer over the lines received since the last
\* analyze(): analyze() empties it (depth 0, score null, mate null, no
\* slot), a valid progress line overwrites the slot of its rank, and depth,
\* score and mate when its rank is 1, and nothing else changes it, so that
\* every slot holds the most recent valid line of its rank.
C33_AggregateIsReducer ==
    [][/\ calls' # calls => currentAnalysis' = EmptyAnalysis
       /\ (Handles("output") /\ ValidProgress(Head(toMain).data)) =>
              ReducedBy(currentAnalysis, currentAnalysis', Head(toMain).data)
       /\ (/\ calls' = calls
           /\ ~(Handles("output") /\ ValidProgress(Head(toMain).data))) =>
              currentAnalysis' = currentAnalysis]_vars

\* at most one of score and mate is set
OneEvaluation(x) == x.score = Null \/ x.mate = Null

\* the aggregate or result and each of its move slots have at most one
OneEvaluationEach(x) ==
    OneEvaluation(x) /\ \A j \in 1..Len(x.moves) : OneEvaluation(x.moves[j])

\* after the line, the slot of its rank, and the aggregate when the rank is
\* 1, have the given score and mate
EvaluationSet(line, score, mate) ==
    /\ currentAnalysis'.moves[LineMultiPv(line)].score = score
    /\ currentAnalysis'.moves[LineMultiPv(line)].mate = mate
    /\ LineMultiPv(line) = 1 =>
          currentAnalysis'.score = score /\ currentAnalysis'.mate = mate

\* C34: the aggregate, every delivered result and every move slot of them
\* have at most one of score and mate; a valid progress line with a mate
\* evaluation sets mate and clears score, one with a centipawn evaluation
\* sets score and clears mate, in the slot of its rank and, at rank 1, in
\* the aggregate.
C34_ScoreAndMateExclusive ==
    /\ [](/\ OneEvaluationEach(currentAnalysis)
          /\ \A i \in Delivered : OneEvaluationEach(invoked[i].result))
    /\ [][(Handles("output") /\ ValidProgress(Head(toMain).data)) =>
            LET line == Head(toMain).data IN
            /\ LineMate(line) # Null => EvaluationSet(line, Null, LineMate(line))
            /\ LineScore(line) # Null =>
                  EvaluationSet(line, LineScore(line), Null)]_vars

\* a mate line of rank 1 arrived after centipawn lines: the aggregate has
\* the mate and no score, and a result with a mate was delivered
C34_Witness ==
    /\ currentAnalysis.mate = LineMate(L.rank1mate)
    /\ currentAnalysis.mate # Null
    /\ currentAnalysis.score = Null
    /\ Len(currentAnalysis.moves) >= 2
    /\ currentAnalysis.moves[2].score = LineScore(L.rank2)
    /\ \E i \in Delivered : invoked[i].result.mate # Null

(***************************************************************************)
(* Properties of the move history and of the lists (continued).            *)
(***************************************************************************)
\* the moves of the history after the cursor
AfterCursor == SubSeq(moveHistory, currentMoveIndex + 2, Len(moveHistory))

\* C35: goToLastMove() with the cursor before the last move makes the
\* moves after the cursor again, in order, each accepted by the rules
\* engine, ends with the cursor on the last move and leaves the history as
\* it was; with the cursor on the last move it changes nothing.
C35_LastMoveReplaysTheRest ==
    [][(lastAct'.op = "goToLastMove" /\ GoToLastMove) =>
          IF currentMoveIndex < Len(moveHistory) - 1
          THEN /\ Replayed(chess, AfterCursor) = AfterCursor
               /\ chess' = Position(chess.start, chess.played \o AfterCursor)
               /\ currentMoveIndex' = Len(moveHistory) - 1
               /\ moveHistory' = moveHistory
          ELSE UNCHANGED <<positionVars, fenList, loadedFileName,
                           engineSide>>]_vars

\* goToLastMove() has made two or more moves again
C35_Witness ==
    /\ lastAct.op = "goToLastMove"
    /\ lastAct.idx + 2 < lastAct.len
    /\ currentMoveIndex = Len(moveHistory) - 1
    /\ Len(chess.played) = Len(moveHistory)

\* C36: in every state the position of the rules engine is the recorded
\* starting position with the moves of the history up to the cursor made
\* in order.
C36_BoardIsStartPlusHistory ==
    chess = Position(initialFen, SubSeq(moveHistory, 1, currentMoveIndex + 1))

\* a position of a file with three moves played, two of them undone and
\* one made again
C36_Witness ==
    /\ lastAct.op = "goToNextMove"
    /\ Len(moveHistory) = 3
    /\ currentMoveIndex = 1
    /\ currentFenIndex >= 0
    /\ initialFen # DEFAULT_FEN
    /\ Len(chess.played) = 2

\* C37: in every state in which the cursor of the list is 0 or more, the
\* entry of the list under the cursor is the starting position shown, the
\* one loaded last; so loadNextFen(), loadPrevFen() and jumpToPosition()
\* that find no entry to load do not leave the cursor on another entry.
C37_CursorOnShownPosition ==
    currentFenIndex >= 0 =>
        /\ currentFenIndex < Len(fenList)
        /\ fenList[currentFenIndex + 1] = initialFen

(***************************************************************************)
(* Properties of the analysis of the board.                                *)
(***************************************************************************)
\* the call of analyze() that registered callback k was made for the
\* position: its "position fen" command carries it
IssuedFor(k, pos) ==
    \E i \in 1..Len(toProxy) :
        /\ toProxy[i].type = "command"
        /\ toProxy[i].command =
               Command("position fen", FenOf(pos), k)

\* C38: whenever the coordinator has a callback registered, analyze() was
\* called with it for the position the board shows now; no move, undo,
\* redo or jump leaves the callback of an earlier position registered,
\* also when the position reached is game over.
C38_CallbackIsForShownPosition ==
    analysisCallback # 0 => IssuedFor(analysisCallback, chess)

\* C39: in every state of the board of main.js in which isAnalysisActive
\* is false the coordinator has no callback registered, and no message of
\* the worker makes it call one.
C39_InactiveHasNoCallback ==
    /\ [](~isAnalysisActive => analysisCallback = 0)
    /\ [][~isAnalysisActive => invoked' = invoked]_vars

\* analysis was turned on and off again, a result had been delivered while
\* it was on, and a bestmove line was handled after it was turned off
C39_Witness ==
    /\ ~isAnalysisActive
    /\ calls > 0
    /\ lastCall = "stop"
    /\ lastMsg.type = "output"
    /\ IsBestmoveLine(lastMsg.data)
    /\ currentAnalysis.moves # <<>>
    /\ invoked = <<>>

(***************************************************************************)
(* Properties of the worker proxy (continued).                             *)
(***************************************************************************)
\* the last call of the coordinator was stop(), the proxy has handled every
\* message sent to it, and the last message the engine has read is a stop:
\* the engine has received the last message of the coordinator
LastStopReceived ==
    /\ lastCall = "stop"
    /\ toProxy = <<>>
    /\ toEngine = <<>>
    /\ engineLog # <<>>
    /\ engineLog[Len(engineLog)] = CmdStop

\* C40: the engine receives the messages of the coordinator in the order
\* they were sent: the commands it has read are the first commands the
\* proxy received, in order, and once it has read a stop that was sent
\* last, no command sent before that stop is still buffered in the proxy.
C40_EngineReceivesInOrderSent ==
    /\ IsPrefix(FilterCommands(engineLog), proxyLog)
    /\ LastStopReceived => messageQueue = <<>>

====
